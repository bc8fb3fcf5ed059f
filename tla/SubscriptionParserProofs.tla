----------------------- MODULE SubscriptionParserProofs -----------------------
(***************************************************************************)
(* What a provider offers is what is stored, for every answer.             *)
(***************************************************************************)
EXTENDS SubscriptionParser, SequenceLemmas

-----------------------------------------------------------------------------
\* One entry.

LEMMA PairIs ==
    ASSUME NEW a, NEW b, NEW c, NEW d, {a, b} = {c, d}
    PROVE  (a = c /\ b = d) \/ (a = d /\ b = c)
OBVIOUS

\* The pairs of spellings, one by one.
LEMMA SameIs ==
    ASSUME NEW a, NEW b
    PROVE  Same(a, b) <=>
               \/ a = b
               \/ (a = "ss" /\ b = "shadowsocks") \/ (a = "shadowsocks" /\ b = "ss")
               \/ (a = "hy2" /\ b = "hysteria2") \/ (a = "hysteria2" /\ b = "hy2")
               \/ (a = "wg" /\ b = "wireguard") \/ (a = "wireguard" /\ b = "wg")
               \/ (a = "ws" /\ b = "websocket") \/ (a = "websocket" /\ b = "ws")
               \/ (a = "http" /\ b = "h2") \/ (a = "h2" /\ b = "http")
               \/ (a = "grpc" /\ b = "gun") \/ (a = "gun" /\ b = "grpc")
               \/ (a = "xhttp" /\ b = "splithttp") \/ (a = "splithttp" /\ b = "xhttp")
<1>1. \A c, d : {a, b} = {c, d} <=> (a = c /\ b = d) \/ (a = d /\ b = c)
  BY PairIs
<1>2. Same(a, b) <=>
          \/ a = b \/ {a, b} = {"ss", "shadowsocks"} \/ {a, b} = {"hy2", "hysteria2"}
          \/ {a, b} = {"wg", "wireguard"} \/ {a, b} = {"ws", "websocket"}
          \/ {a, b} = {"http", "h2"} \/ {a, b} = {"grpc", "gun"}
          \/ {a, b} = {"xhttp", "splithttp"}
  BY Zenon DEF Same, Spellings
<1> QED
  BY <1>1, <1>2, Zenon

LEMMA AliasType ==
    ASSUME NEW n \in Networks
    PROVE  /\ Lookup(NetAliases, n, n) \in Networks
           /\ Same(Lookup(NetAliases, n, n), n)
           /\ Lookup(NetAliases, n, n) \notin {"websocket", "h2", "gun", "splithttp"}
           /\ Lookup(NetAliases, n, n) = "tcp" <=> n = "tcp"
BY SameIs DEF Networks, Lookup, NetAliases

LEMMA FilledType ==
    ASSUME NEW sec \in Securities, NEW secs, NEW n, NEW t,
           \A k \in DOMAIN t : t[k] \in Networks
    PROVE  Filled(sec, secs, n, t) \in SUBSET Settings
BY DEF Filled, Settings

LEMMA UriStreamType ==
    ASSUME NEW e \in Entry
    PROVE  StreamFromUriParams(e) \in StreamInfo
<1> DEFINE t == [ws |-> "ws", http |-> "http", h2 |-> "http", grpc |-> "grpc",
                 xhttp |-> "xhttp", splithttp |-> "xhttp"]
           net == Lookup(NetAliases, e.net, e.net)
<1>1. e.net \in Networks /\ e.sec \in Securities
  BY DEF Entry
<1>2. net \in Networks
  BY <1>1, AliasType
<1>3. \A k \in DOMAIN t : t[k] \in Networks
  BY DEF Networks
<1> HIDE DEF t, net
<1>4. Filled(e.sec, {"tls", "reality"}, net, t) \in SUBSET Settings
  BY <1>1, <1>3, FilledType
<1> QED
  BY <1>1, <1>2, <1>4 DEF StreamFromUriParams, StreamInfo, t, net

LEMMA InfoType ==
    ASSUME NEW e \in Entry, NEW protocol \in Protocols, NEW default \in Tag,
           NEW server \in {"own", "garbled"}, NEW extra \in BOOLEAN,
           NEW stream \in StreamInfo
    PROVE  Info(e, protocol, default, server, extra, stream) \in OutboundInfo
BY DEF Info, OutboundInfo, Entry

LEMMA NameType ==
    ASSUME NEW e \in Entry
    PROVE  /\ \A n \in Kinds : Plain(n) \in Tag
           /\ \A n \in {"vless-host", "trojan-host", "ss-host", "hy2-host", "hysteria-host"} :
                 ByHost(n, e) \in Tag
BY DEF Plain, ByHost, Tag, Entry

LEMMA EndpointType ==
    ASSUME NEW e \in Entry
    PROVE  ParseHostport(e) \in {"own", "garbled"} /\ Insecure(e) \in SUBSET Settings
BY DEF ParseHostport, Insecure, Settings

LEMMA VmessType ==
    ASSUME NEW e \in Entry, e.form = "usual"
    PROVE  ParseVmessUri(e) \in OutboundInfo
<1> DEFINE t == [ws |-> "ws", http |-> "http", h2 |-> "http", grpc |-> "grpc"]
           net == Lookup(NetAliases, e.net, e.net)
           s == [network |-> net, security |-> e.sec,
                 filled |-> Filled(e.sec, {"tls"}, net, t)]
<1>1. e.net \in Networks /\ e.sec \in Securities /\ e.extra \in BOOLEAN
  BY DEF Entry
<1>2. net \in Networks
  BY <1>1, AliasType
<1>3. \A k \in DOMAIN t : t[k] \in Networks
  BY DEF Networks
<1>4. Plain("vmess") \in Tag /\ "vmess" \in Protocols
  BY NameType DEF Kinds, Protocols, Proxies
<1>5. ParseVmessUri(e) = Info(e, "vmess", Plain("vmess"), "own", e.extra, s)
  BY DEF ParseVmessUri
<1> HIDE DEF t, net
<1>6. Filled(e.sec, {"tls"}, net, t) \in SUBSET Settings
  BY <1>1, <1>3, FilledType
<1>7. s \in StreamInfo
  BY <1>1, <1>2, <1>6 DEF StreamInfo
<1> HIDE DEF s
<1> QED
  BY <1>1, <1>4, <1>5, <1>7, InfoType

\* What a parser makes of a line is an OutboundInfo of a proxy for the entries
\* on offer, and nothing for the others.
Turns(e, r, dialect) ==
    IF Offered(e, dialect)
    THEN /\ r \in OutboundInfo \cup XrayOutboundInfo
         /\ r.id = e.id /\ r.protocol \in Proxies
    ELSE r = Null \/ (r \in OutboundInfo \cup XrayOutboundInfo /\ r.protocol \notin Proxies)

LEMMA UriTurns ==
    ASSUME NEW e \in Entry
    PROVE  /\ Turns(e, ParseUri(e), "uri")
           /\ ParseUri(e) \in OutboundInfo \cup {Null}
<1> DEFINE r == ParseUri(e)
<1>1. Offered(e, "uri") <=>
          \/ e.as = "hysteria" \/ (e.as = "vmess" /\ e.form = "usual")
          \/ e.addressed /\ e.as \in {"vless", "trojan", "ss", "shadowsocks", "hy2", "hysteria2"}
  BY DEF Offered
<1>2. StreamFromUriParams(e) \in StreamInfo /\ e.extra \in BOOLEAN /\ e.addressed \in BOOLEAN
      /\ ParseHostport(e) \in {"own", "garbled"}
  BY UriStreamType, EndpointType DEF Entry
<1>3. /\ ByHost("vless-host", e) \in Tag /\ ByHost("trojan-host", e) \in Tag
      /\ ByHost("ss-host", e) \in Tag /\ ByHost("hy2-host", e) \in Tag
      /\ ByHost("hysteria-host", e) \in Tag
  BY NameType
<1>4. /\ [network |-> "tcp", security |-> "none", filled |-> {}] \in StreamInfo
      /\ [network |-> "tcp", security |-> "tls", filled |-> {"tls"} \cup Insecure(e)]
            \in StreamInfo
      /\ [network |-> "udp", security |-> "tls", filled |-> {"tls"}] \in StreamInfo
  BY EndpointType DEF StreamInfo, Settings, Networks, Securities
<1>5. {"vmess", "vless", "trojan", "shadowsocks", "hysteria2", "hysteria"} \subseteq Protocols \cap Proxies
  BY DEF Protocols, Proxies
<1>6. CASE e.as = "vmess"
  <2>1. CASE e.form = "usual"
    <3>1. r = ParseVmessUri(e) /\ r \in OutboundInfo /\ r.id = e.id /\ r.protocol = "vmess"
      BY <1>6, <2>1, VmessType DEF ParseUri, ParseVmessUri, Info
    <3> QED
      BY <3>1, <2>1, <1>1, <1>5, <1>6 DEF Turns
  <2>2. CASE e.form = "odd"
    <3>1. ~ Offered(e, "uri") /\ r = Null
      BY <2>2, <1>1, <1>6 DEF ParseUri, ParseVmessUri
    <3> QED
      BY <3>1 DEF Turns
  <2> QED
    BY <2>1, <2>2 DEF Entry
<1>7. CASE e.as = "vless"
  <2>1. CASE e.addressed
    <3>1. r = Info(e, "vless", ByHost("vless-host", e), ParseHostport(e), e.extra, StreamFromUriParams(e))
      BY <1>7, <2>1 DEF ParseUri, ParseVlessUri
    <3>2. r \in OutboundInfo
      BY <3>1, <1>2, <1>3, <1>5, InfoType
    <3>3. r.id = e.id /\ r.protocol = "vless"
      BY <3>1 DEF Info
    <3> QED
      BY <3>2, <3>3, <2>1, <1>1, <1>5, <1>7 DEF Turns
  <2>2. CASE ~ e.addressed
    BY <2>2, <1>1, <1>7 DEF Turns, ParseUri, ParseVlessUri
  <2> QED
    BY <2>1, <2>2
<1>8. CASE e.as = "trojan"
  <2>1. CASE e.addressed
    <3>1. r = Info(e, "trojan", ByHost("trojan-host", e), ParseHostport(e), FALSE, StreamFromUriParams(e))
      BY <1>8, <2>1 DEF ParseUri, ParseTrojanUri
    <3>2. r \in OutboundInfo
      BY <3>1, <1>2, <1>3, <1>5, InfoType
    <3>3. r.id = e.id /\ r.protocol = "trojan"
      BY <3>1 DEF Info
    <3> QED
      BY <3>2, <3>3, <2>1, <1>1, <1>5, <1>8 DEF Turns
  <2>2. CASE ~ e.addressed
    BY <2>2, <1>1, <1>8 DEF Turns, ParseUri, ParseTrojanUri
  <2> QED
    BY <2>1, <2>2
<1>9. CASE e.as \in {"ss", "shadowsocks"}
  <2> DEFINE server == IF e.as = "shadowsocks" \/ e.userinfo = "plain" THEN "garbled"
                     ELSE ParseHostport(e)
  <2>1. CASE e.addressed
    <3>1. r = Info(e, "shadowsocks", ByHost("ss-host", e), server, FALSE,
                   [network |-> "tcp", security |-> "none", filled |-> {}])
      BY <1>9, <2>1 DEF ParseUri, ParseSsUri
    <3>2. server \in {"own", "garbled"}
      BY <1>2
    <3> HIDE DEF server
    <3>3. r \in OutboundInfo
      BY <3>1, <3>2, <1>3, <1>4, <1>5, InfoType
    <3>4. r.id = e.id /\ r.protocol = "shadowsocks"
      BY <3>1 DEF Info
    <3> QED
      BY <3>3, <3>4, <2>1, <1>1, <1>5, <1>9 DEF Turns
  <2>2. CASE ~ e.addressed
    BY <2>2, <1>1, <1>9 DEF Turns, ParseUri, ParseSsUri
  <2> QED
    BY <2>1, <2>2
<1>10. CASE e.as \in {"hy2", "hysteria2"}
  <2>1. CASE e.addressed
    <3>1. r = Info(e, "hysteria2", ByHost("hy2-host", e), ParseHostport(e), e.extra,
                   [network |-> "tcp", security |-> "tls", filled |-> {"tls"} \cup Insecure(e)])
      BY <1>10, <2>1 DEF ParseUri, ParseHy2Uri
    <3>2. r \in OutboundInfo
      BY <3>1, <1>2, <1>3, <1>4, <1>5, InfoType
    <3>3. r.id = e.id /\ r.protocol = "hysteria2"
      BY <3>1 DEF Info
    <3> QED
      BY <3>2, <3>3, <2>1, <1>1, <1>5, <1>10 DEF Turns
  <2>2. CASE ~ e.addressed
    BY <2>2, <1>1, <1>10 DEF Turns, ParseUri, ParseHy2Uri
  <2> QED
    BY <2>1, <2>2
<1>11. CASE e.as = "hysteria"
  <2> DEFINE f == [e EXCEPT !.addressed = TRUE]
  <2>1. r = Info(f, "hysteria", ByHost("hysteria-host", e), ParseHostport(e), e.extra,
                 [network |-> "udp", security |-> "tls", filled |-> {"tls"}])
    BY <1>11 DEF ParseUri, ParseHysteria1Uri
  <2>2. f \in Entry /\ f.id = e.id
    BY DEF Entry
  <2> HIDE DEF f
  <2>3. r \in OutboundInfo
    BY <2>1, <2>2, <1>2, <1>3, <1>4, <1>5, InfoType
  <2>4. r.id = e.id /\ r.protocol = "hysteria"
    BY <2>1, <2>2 DEF Info
  <2> QED
    BY <2>3, <2>4, <1>1, <1>5, <1>11 DEF Turns
<1>12. CASE e.as \notin {"vmess", "vless", "trojan", "ss", "shadowsocks", "hy2", "hysteria2", "hysteria"}
  BY <1>12, <1>1 DEF Turns, ParseUri
<1> QED
  BY <1>6, <1>7, <1>8, <1>9, <1>10, <1>11, <1>12

LEMMA SingboxOffers ==
    ASSUME NEW e \in Entry
    PROVE  Offered(e, "singbox") <=>
               e.as \in {"vless", "vmess", "trojan", "shadowsocks", "ss", "hysteria2",
                         "hy2", "hysteria", "wireguard", "socks", "http"}
<1>1. e.as \in Kinds
  BY DEF Entry
<1>2. \A k \in Kinds : (\E p \in Proxies : Same(k, p) /\ k \notin {"wg", "h2"}) <=>
          k \in {"vless", "vmess", "trojan", "shadowsocks", "ss", "hysteria2",
                 "hy2", "hysteria", "wireguard", "socks", "http"}
  BY SameIs DEF Kinds, ProxyUriSchemes, Protocols, Proxies
<1> QED
  BY <1>1, <1>2 DEF Offered

LEMMA XrayOffers ==
    ASSUME NEW e \in Entry
    PROVE  Offered(e, "xray") <=> ProtocolParse(e.as) \in Proxies
<1>1. e.as \in Kinds
  BY DEF Entry
<1> DEFINE K == {"vless", "vmess", "trojan", "shadowsocks", "ss", "hysteria2", "hy2",
                 "hysteria", "wireguard", "wg", "socks", "http", "h2"}
<1>2. \A k \in Kinds : (\E p \in Proxies : Same(k, p)) <=> k \in K
  BY SameIs DEF Kinds, ProxyUriSchemes, Protocols, Proxies
<1>3. \A k \in Kinds : ProtocolParse(k) \in Proxies <=> k \in K
  <2> DEFINE t == [ss |-> "shadowsocks", hy2 |-> "hysteria2", wg |-> "wireguard", h2 |-> "http"]
  <2>1. \A k \in Kinds : Lookup(t, k, k) \in Proxies <=> k \in K
    BY DEF Kinds, ProxyUriSchemes, Protocols, Proxies, Lookup
  <2>2. Proxies \subseteq Protocols /\ "unknown" \notin Proxies
    BY DEF Protocols, Proxies
  <2>3. \A k : ProtocolParse(k) = IF Lookup(t, k, k) \in Protocols THEN Lookup(t, k, k) ELSE "unknown"
    BY DEF ProtocolParse
  <2> HIDE DEF t, K
  <2> QED
    BY <2>1, <2>2, <2>3
<1> QED
  BY <1>1, <1>2, <1>3 DEF Offered

LEMMA SingboxStreamType ==
    ASSUME NEW e \in Entry
    PROVE  SingboxStream(e) \in StreamInfo
<1> DEFINE t == [ws |-> "ws", grpc |-> "grpc", h2 |-> "http", http |-> "http",
                 xhttp |-> "xhttp", httpupgrade |-> "xhttp"]
           net == Lookup([websocket |-> "ws", http |-> "h2"], e.net, e.net)
<1>1. e.net \in Networks /\ e.sec \in Securities
  BY DEF Entry
<1>2. net \in Networks
  BY <1>1 DEF Lookup, Networks
<1>3. \A k \in DOMAIN t : t[k] \in Networks
  BY DEF Networks
<1>4. SingboxStream(e) = [network |-> net, security |-> e.sec,
                          filled |-> Filled(e.sec, {"tls", "reality"}, net, t)]
  BY DEF SingboxStream
<1> HIDE DEF t, net
<1>5. Filled(e.sec, {"tls", "reality"}, net, t) \in SUBSET Settings
  BY <1>1, <1>3, FilledType
<1> QED
  BY <1>1, <1>2, <1>4, <1>5 DEF StreamInfo

LEMMA SingboxTurns ==
    ASSUME NEW e \in Entry
    PROVE  /\ Turns(e, SingboxOutboundToInfo(e), "singbox")
           /\ SingboxOutboundToInfo(e) \in OutboundInfo \cup {Null}
<1> DEFINE r == SingboxOutboundToInfo(e)
           s == IF e.as = "wireguard"
                THEN [network |-> "udp", security |-> "none", filled |-> {}]
                ELSE SingboxStream(e)
           x == e.extra /\ e.as = "vless"
<1>1. e.as \in Kinds /\ e.extra \in BOOLEAN
  BY DEF Entry
<1>2. Plain(e.as) \in Tag
  BY <1>1, NameType
<1>3. s \in StreamInfo
  <2>1. [network |-> "udp", security |-> "none", filled |-> {}] \in StreamInfo
    BY DEF StreamInfo, Networks, Securities
  <2> QED
    BY <2>1, SingboxStreamType
<1>4. CASE e.as \notin DOMAIN SingboxProtocols
  <2>1. r = Null
    BY <1>4 DEF SingboxOutboundToInfo
  <2>2. ~ Offered(e, "singbox")
    BY <1>4, SingboxOffers DEF SingboxProtocols
  <2> QED
    BY <2>1, <2>2 DEF Turns
<1>5. CASE e.as \in DOMAIN SingboxProtocols
  <2>1. r = Info(e, SingboxProtocols[e.as], Plain(e.as), "own", x, s)
    BY <1>5 DEF SingboxOutboundToInfo
  <2>2. /\ SingboxProtocols[e.as] \in Protocols
        /\ SingboxProtocols[e.as] \in Proxies <=> Offered(e, "singbox")
    BY <1>5, SingboxOffers DEF SingboxProtocols, Protocols, Proxies
  <2>3. x \in BOOLEAN
    OBVIOUS
  <2> HIDE DEF s, x
  <2>4. r \in OutboundInfo
    BY <2>1, <2>2, <2>3, <1>2, <1>3, InfoType
  <2>5. r.id = e.id /\ r.protocol = SingboxProtocols[e.as]
    BY <2>1 DEF Info
  <2> QED
    BY <2>2, <2>4, <2>5 DEF Turns
<1> QED
  BY <1>4, <1>5

LEMMA RawType ==
    ASSUME NEW e \in Entry
    PROVE  RawOutbound(e) \in Dict
BY EndpointType DEF RawOutbound, Dict, Entry, Needs, Settings

LEMMA XrayTurns ==
    ASSUME NEW e \in Entry, NEW k \in Nat
    PROVE  /\ Turns(e, ParseOutbound(e, "xray", k), "xray")
           /\ \A speaks : ParseOutbound(e, speaks, k) \in XrayOutboundInfo
           /\ ParseOutbound(e, "singbox", k).protocol \notin Proxies
<1>1. ProtocolParse(e.as) \in Protocols /\ "unknown" \in Protocols \ Proxies
  BY DEF ProtocolParse, Protocols, Proxies
<1>2. /\ e.id \in Nat
      /\ (IF e.tag = Null THEN [name |-> "outbound", numbers |-> <<k>>] ELSE e.tag) \in Tag
  BY DEF Entry, Tag
<1>3. \A speaks : ParseOutbound(e, speaks, k) \in XrayOutboundInfo
  BY <1>1, <1>2, RawType DEF ParseOutbound, XrayOutboundInfo
<1>4. /\ ParseOutbound(e, "xray", k).id = e.id
      /\ ParseOutbound(e, "xray", k).protocol = ProtocolParse(e.as)
      /\ ParseOutbound(e, "singbox", k).protocol = "unknown"
  BY DEF ParseOutbound
<1>5. Turns(e, ParseOutbound(e, "xray", k), "xray")
  BY <1>3, <1>4, XrayOffers DEF Turns
<1> QED
  BY <1>1, <1>3, <1>4, <1>5

-----------------------------------------------------------------------------
\* One server, on its way to a stored outbound.

\* A stream that holds the payload of its security and of its network has the
\* settings that these need.
Carries(s, e) ==
    /\ s.security = e.sec /\ Same(s.network, e.net)
    /\ e.sec # "none" => e.sec \in s.filled
    /\ e.net # "tcp" => Payload(s.network) \in s.filled /\ Same(Payload(s.network), e.net)

LEMMA NeedsMet ==
    ASSUME NEW s, NEW e, Carries(s, e), ~ e.insecure
    PROVE  \A n \in Needs(e) : \E m \in StreamSettings(s) : Same(m, n)
<1> SUFFICES ASSUME NEW n \in Needs(e)
             PROVE  \E m \in StreamSettings(s) : Same(m, n)
  OBVIOUS
<1>1. CASE n = e.sec /\ n # "none"
  <2>1. n \in StreamSettings(s)
    BY <1>1 DEF Carries, StreamSettings
  <2>2. Same(n, n)
    BY DEF Same
  <2> QED
    BY <2>1, <2>2
<1>2. CASE n = e.net /\ n # "tcp"
  <2>1. Payload(s.network) \in StreamSettings(s) /\ Same(Payload(s.network), n)
    BY <1>2 DEF Carries, StreamSettings
  <2> QED
    BY <2>1
<1> QED
  BY <1>1, <1>2 DEF Needs, Insecure

LEMMA FilledIs ==
    ASSUME NEW sec, NEW secs, NEW n, NEW t
    PROVE  /\ sec \in secs => sec \in Filled(sec, secs, n, t)
           /\ n \in DOMAIN t => t[n] \in Filled(sec, secs, n, t)
BY DEF Filled

LEMMA UriStreamCarries ==
    ASSUME NEW e \in Entry, e.sec # "malformed",
           e.net \notin {"udp", "quic", "kcp", "httpupgrade"}
    PROVE  Carries(StreamFromUriParams(e), e)
<1> DEFINE t == [ws |-> "ws", http |-> "http", h2 |-> "http", grpc |-> "grpc",
                 xhttp |-> "xhttp", splithttp |-> "xhttp"]
           net == Lookup(NetAliases, e.net, e.net)
           s == StreamFromUriParams(e)
<1>1. e.net \in Networks /\ e.sec \in Securities
  BY DEF Entry
<1>2. Same(net, e.net)
  BY <1>1, AliasType
<1>3. s = [network |-> net, security |-> e.sec,
           filled |-> Filled(e.sec, {"tls", "reality"}, net, t)]
  BY DEF StreamFromUriParams
<1>4. e.net = "tcp" \/ net \in {"ws", "http", "grpc", "xhttp"}
  BY <1>1 DEF Lookup, NetAliases, Networks
<1> HIDE DEF net, s
<1>5. net \in {"ws", "http", "grpc", "xhttp"} =>
          net \in DOMAIN t /\ t[net] = net /\ Payload(net) = net
  BY DEF Payload, Lookup
<1>6. e.sec # "none" => e.sec \in {"tls", "reality"}
  BY <1>1 DEF Securities
<1> HIDE DEF t
<1>7. s.network = net /\ s.security = e.sec /\ s.filled = Filled(e.sec, {"tls", "reality"}, net, t)
  BY <1>3
<1> QED
  <2>1. e.sec # "none" => e.sec \in s.filled
    BY <1>6, <1>7, FilledIs
  <2>2. e.net # "tcp" => Payload(s.network) \in s.filled /\ Same(Payload(s.network), e.net)
    BY <1>2, <1>4, <1>5, <1>7, FilledIs
  <2>3. s.security = e.sec /\ Same(s.network, e.net)
    BY <1>2, <1>7
  <2> QED
    BY <2>1, <2>2, <2>3 DEF Carries, s

LEMMA VmessCarries ==
    ASSUME NEW e \in Entry, e.form # "odd", e.sec \notin {"malformed", "reality"},
           e.net \notin {"udp", "quic", "kcp", "httpupgrade", "xhttp", "splithttp"}
    PROVE  Carries(ParseVmessUri(e).stream, e)
<1> DEFINE t == [ws |-> "ws", http |-> "http", h2 |-> "http", grpc |-> "grpc"]
           net == Lookup(NetAliases, e.net, e.net)
           s == ParseVmessUri(e).stream
<1>1. e.net \in Networks /\ e.sec \in Securities
  BY DEF Entry
<1>2. Same(net, e.net)
  BY <1>1, AliasType
<1>3. s = [network |-> net, security |-> e.sec, filled |-> Filled(e.sec, {"tls"}, net, t)]
  BY DEF ParseVmessUri, Info
<1>4. e.net = "tcp" \/ net \in {"ws", "http", "grpc"}
  BY <1>1 DEF Lookup, NetAliases, Networks
<1> HIDE DEF net, s
<1>5. net \in {"ws", "http", "grpc"} =>
          net \in DOMAIN t /\ t[net] = net /\ Payload(net) = net
  BY DEF Payload, Lookup
<1>6. e.sec # "none" => e.sec \in {"tls"}
  BY <1>1 DEF Securities
<1> HIDE DEF t
<1>7. s.network = net /\ s.security = e.sec /\ s.filled = Filled(e.sec, {"tls"}, net, t)
  BY <1>3
<1> QED
  <2>1. e.sec # "none" => e.sec \in s.filled
    BY <1>6, <1>7, FilledIs
  <2>2. e.net # "tcp" => Payload(s.network) \in s.filled /\ Same(Payload(s.network), e.net)
    BY <1>2, <1>4, <1>5, <1>7, FilledIs
  <2>3. s.security = e.sec /\ Same(s.network, e.net)
    BY <1>2, <1>7
  <2> QED
    BY <2>1, <2>2, <2>3 DEF Carries, s

LEMMA SingboxCarries ==
    ASSUME NEW e \in Entry, e.sec # "malformed",
           Sayable(e, "singbox"), e.net \notin {"quic", "httpupgrade"}
    PROVE  Carries(SingboxStream(e), e)
<1> DEFINE t == [ws |-> "ws", grpc |-> "grpc", h2 |-> "http", http |-> "http",
                 xhttp |-> "xhttp", httpupgrade |-> "xhttp"]
           net == Lookup([websocket |-> "ws", http |-> "h2"], e.net, e.net)
           s == SingboxStream(e)
<1>1. e.net \in {"tcp", "ws", "websocket", "http", "grpc", "xhttp"} /\ e.sec \in Securities
  BY DEF Entry, Sayable
<1>2. s = [network |-> net, security |-> e.sec,
           filled |-> Filled(e.sec, {"tls", "reality"}, net, t)]
  BY DEF SingboxStream
<1>3. Same(net, e.net)
  BY <1>1, SameIs DEF Lookup
<1>4. e.net # "tcp" =>
          /\ net \in DOMAIN t /\ t[net] = Payload(net)
          /\ Same(Payload(net), e.net)
  BY <1>1, SameIs DEF Payload, Lookup
<1>5. e.sec # "none" => e.sec \in {"tls", "reality"}
  BY <1>1 DEF Securities
<1> HIDE DEF t, net, s
<1>6. s.network = net /\ s.security = e.sec /\ s.filled = Filled(e.sec, {"tls", "reality"}, net, t)
  BY <1>2
<1> QED
  <2>1. e.sec # "none" => e.sec \in s.filled
    BY <1>5, <1>6, FilledIs
  <2>2. e.net # "tcp" => Payload(s.network) \in s.filled /\ Same(Payload(s.network), e.net)
    BY <1>4, <1>6, FilledIs
  <2>3. s.security = e.sec /\ Same(s.network, e.net)
    BY <1>3, <1>6
  <2> QED
    BY <2>1, <2>2, <2>3 DEF Carries, s

\* A rebuilt server that carries its settings is the one meant.
LEMMA RebuiltMeant ==
    ASSUME NEW e \in Entry, NEW protocol \in Rebuilt, NEW default, NEW extra \in BOOLEAN,
           NEW stream, e.addressed, ~ e.insecure, Same(protocol, e.as), Carries(stream, e),
           e.extra <=> extra /\ protocol \in {"vless", "vmess"}
    PROVE  Meant(AsDict(Info(e, protocol, default, "own", extra, stream)), e)
<1> DEFINE r == Info(e, protocol, default, "own", extra, stream)
           d == AsDict(r)
<1>1. /\ r.id = e.id /\ r.protocol = protocol /\ r.addressed = e.addressed
      /\ r.server = "own" /\ r.extra = extra /\ r.stream = stream /\ r.raw = Null
  BY DEF Info
<1> HIDE DEF r
<1>2. d = OutboundInfoToXrayDict(r)
  BY <1>1 DEF AsDict
<1>3. e.extra \in BOOLEAN /\ e.addressed \in BOOLEAN
  BY DEF Entry
<1>4. /\ d.protocol = protocol /\ d.addressed = TRUE /\ d.server = "own"
      /\ d.network = stream.network /\ d.security = stream.security
      /\ d.settings = StreamSettings(stream)
  <2>1. r.addressed = TRUE /\ (r.addressed /\ r.protocol \in Rebuilt)
    BY <1>1, <1>3
  <2>2. /\ d.protocol = r.protocol /\ d.network = r.stream.network
        /\ d.security = r.stream.security /\ d.settings = StreamSettings(r.stream)
        /\ d.addressed = (r.addressed /\ r.protocol \in Rebuilt)
        /\ d.server = IF r.addressed /\ r.protocol \in Rebuilt THEN r.server ELSE "lost"
    BY <1>2 DEF OutboundInfoToXrayDict
  <2> QED
    BY <2>1, <2>2, <1>1
<1>5. d.extra = (extra /\ protocol \in {"vless", "vmess"})
  <2>1. d.extra = ((r.addressed /\ r.protocol \in Rebuilt) /\ r.extra
                      /\ r.protocol \in {"vless", "vmess"})
    BY <1>2 DEF OutboundInfoToXrayDict
  <2>2. ((r.addressed /\ r.protocol \in Rebuilt) /\ r.extra
            /\ r.protocol \in {"vless", "vmess"})
        <=> (extra /\ protocol \in {"vless", "vmess"})
    BY <1>1, Zenon
  <2> QED
    BY <2>1, <2>2
<1> HIDE DEF d
<1>6. d.extra = e.extra /\ d.addressed = e.addressed
  BY <1>3, <1>4, <1>5
<1>7. Same(d.network, e.net) /\ d.security = e.sec
  BY <1>4 DEF Carries
<1>8. \A n \in Needs(e) : \E m \in d.settings : Same(m, n)
  BY <1>4, NeedsMet
<1>9. Meant(d, e)
  BY <1>4, <1>6, <1>7, <1>8 DEF Meant
<1> QED
  BY <1>9 DEF d, r

LEMMA UriMeant ==
    ASSUME NEW e \in Entry, Sayable(e, "uri"), Offered(e, "uri"), ~ KnownLoss(e, "uri")
    PROVE  Meant(AsDict(ParseUri(e)), e)
<1> DEFINE r == ParseUri(e)
<1>1. /\ e.as \notin {"hysteria", "shadowsocks"} /\ e.addressed
      /\ e.form # "odd" /\ ~ e.insecure
      /\ ~ (e.as = "ss" /\ e.userinfo = "plain")
      /\ e.net \notin {"udp", "quic", "kcp", "httpupgrade"}
      /\ ~ (e.as = "vmess" /\ (Same(e.net, "xhttp") \/ e.sec = "reality"))
      /\ e.extra => e.as \in {"vless", "vmess"}
  BY DEF KnownLoss
<1>12. ParseHostport(e) = "own" /\ Insecure(e) = {}
  BY <1>1 DEF ParseHostport, Insecure
<1>2. /\ e.sec # "malformed"
      /\ e.as = "ss" => e.net = "tcp" /\ e.sec = "none"
      /\ e.as \in {"hy2", "hysteria2"} => e.net = "tcp" /\ e.sec = "tls"
  BY DEF Sayable
<1>3. e.as \in {"vmess", "vless", "trojan", "ss", "hy2", "hysteria2"}
  BY <1>1 DEF Offered
<1>4. e.extra \in BOOLEAN
  BY DEF Entry
<1>5. {"vless", "vmess", "trojan", "shadowsocks", "hysteria2"} = Rebuilt
  BY DEF Rebuilt
<1>6. CASE e.as = "vmess"
  <2>1. e.net \notin {"xhttp", "splithttp"} /\ e.sec # "reality"
    BY <1>1, <1>6, SameIs
  <2>2. Carries(r.stream, e)
    <3>1. Carries(ParseVmessUri(e).stream, e)
      BY <2>1, <1>1, <1>2, VmessCarries
    <3> QED
      BY <3>1, <1>6 DEF ParseUri
  <2>3. r = Info(e, "vmess", Plain("vmess"), "own", e.extra, r.stream)
    BY <1>1, <1>6 DEF ParseUri, ParseVmessUri, Info
  <2>4. Same("vmess", e.as) /\ (e.extra <=> e.extra /\ "vmess" \in {"vless", "vmess"})
    BY <1>6 DEF Same
  <2> HIDE DEF r
  <2>5. Meant(AsDict(Info(e, "vmess", Plain("vmess"), "own", e.extra, r.stream)), e)
    BY <2>2, <2>4, <1>1, <1>4, <1>5, RebuiltMeant
  <2> QED
    BY <2>3, <2>5 DEF r
<1>7. CASE e.as = "vless"
  <2>1. Carries(StreamFromUriParams(e), e)
    BY <1>1, <1>2, UriStreamCarries
  <2>2. r = Info(e, "vless", ByHost("vless-host", e), "own", e.extra, StreamFromUriParams(e))
    BY <1>1, <1>12, <1>7 DEF ParseUri, ParseVlessUri
  <2>3. Same("vless", e.as) /\ (e.extra <=> e.extra /\ "vless" \in {"vless", "vmess"})
    BY <1>7 DEF Same
  <2>4. Meant(AsDict(Info(e, "vless", ByHost("vless-host", e), "own", e.extra,
                          StreamFromUriParams(e))), e)
    BY <2>1, <2>3, <1>1, <1>4, <1>5, RebuiltMeant
  <2> QED
    BY <2>2, <2>4
<1>8. CASE e.as = "trojan"
  <2>1. Carries(StreamFromUriParams(e), e)
    BY <1>1, <1>2, UriStreamCarries
  <2>2. r = Info(e, "trojan", ByHost("trojan-host", e), "own", FALSE, StreamFromUriParams(e))
    BY <1>1, <1>12, <1>8 DEF ParseUri, ParseTrojanUri
  <2>3. Same("trojan", e.as) /\ (e.extra <=> FALSE /\ "trojan" \in {"vless", "vmess"})
    BY <1>1, <1>8 DEF Same
  <2>4. Meant(AsDict(Info(e, "trojan", ByHost("trojan-host", e), "own", FALSE,
                          StreamFromUriParams(e))), e)
    BY <2>1, <2>3, <1>1, <1>5, RebuiltMeant
  <2> QED
    BY <2>2, <2>4
<1>9. CASE e.as = "ss"
  <2> DEFINE s == [network |-> "tcp", security |-> "none", filled |-> {}]
  <2>1. Carries(s, e)
    BY <1>2, <1>9 DEF Carries, Same
  <2>2. r = Info(e, "shadowsocks", ByHost("ss-host", e), "own", FALSE, s)
    BY <1>1, <1>12, <1>9 DEF ParseUri, ParseSsUri
  <2>3. Same("shadowsocks", e.as) /\ (e.extra <=> FALSE /\ "shadowsocks" \in {"vless", "vmess"})
    BY <1>1, <1>9, SameIs
  <2> HIDE DEF s
  <2>4. Meant(AsDict(Info(e, "shadowsocks", ByHost("ss-host", e), "own", FALSE, s)), e)
    BY <2>1, <2>3, <1>1, <1>5, RebuiltMeant
  <2> QED
    BY <2>2, <2>4
<1>10. CASE e.as \in {"hy2", "hysteria2"}
  <2> DEFINE s == [network |-> "tcp", security |-> "tls", filled |-> {"tls"}]
  <2>1. Carries(s, e)
    BY <1>2, <1>10 DEF Carries, Same
  <2>2. r = Info(e, "hysteria2", ByHost("hy2-host", e), "own", e.extra, s)
    BY <1>1, <1>12, <1>10 DEF ParseUri, ParseHy2Uri
  <2>3. Same("hysteria2", e.as) /\ (e.extra <=> e.extra /\ "hysteria2" \in {"vless", "vmess"})
    BY <1>1, <1>10, SameIs
  <2> HIDE DEF s
  <2>4. Meant(AsDict(Info(e, "hysteria2", ByHost("hy2-host", e), "own", e.extra, s)), e)
    BY <2>1, <2>3, <1>1, <1>4, <1>5, RebuiltMeant
  <2> QED
    BY <2>2, <2>4
<1> QED
  BY <1>3, <1>6, <1>7, <1>8, <1>9, <1>10

LEMMA SingboxMeant ==
    ASSUME NEW e \in Entry, Sayable(e, "singbox"), Offered(e, "singbox"),
           ~ KnownLoss(e, "singbox"), ~ RaisesInSingbox(e)
    PROVE  Meant(AsDict(SingboxOutboundToInfo(e)), e)
<1> DEFINE r == SingboxOutboundToInfo(e)
           p == SingboxProtocols[e.as]
           x == e.extra /\ e.as = "vless"
<1>1. /\ e.as \in {"vless", "vmess", "trojan", "shadowsocks", "ss", "hysteria2", "hy2"}
      /\ e.addressed /\ e.net \notin {"httpupgrade", "quic"} /\ ~ e.insecure
      /\ e.extra => e.as = "vless"
  BY SingboxOffers DEF KnownLoss
<1>2. e.as \in DOMAIN SingboxProtocols /\ e.as # "wireguard" /\ p \in Rebuilt
  BY <1>1 DEF SingboxProtocols, Rebuilt
<1>3. e.sec # "malformed"
  BY <1>2 DEF RaisesInSingbox
<1>4. Carries(SingboxStream(e), e)
  BY <1>1, <1>3, SingboxCarries
<1>5. r = Info(e, p, Plain(e.as), "own", x, SingboxStream(e))
  BY <1>2 DEF SingboxOutboundToInfo
<1>6. Same(p, e.as)
  BY <1>1, SameIs DEF SingboxProtocols
<1>7. e.extra <=> x /\ p \in {"vless", "vmess"}
  BY <1>1 DEF SingboxProtocols
<1>8. x \in BOOLEAN
  OBVIOUS
<1> HIDE DEF r, p, x
<1>9. Meant(AsDict(Info(e, p, Plain(e.as), "own", x, SingboxStream(e))), e)
  BY <1>1, <1>2, <1>4, <1>6, <1>7, <1>8, RebuiltMeant
<1> QED
  BY <1>5, <1>9 DEF r

LEMMA XrayMeant ==
    ASSUME NEW e \in Entry, NEW k, NEW speaks
    PROVE  Meant(AsDict(ParseOutbound(e, speaks, k)), e)
<1> DEFINE d == RawOutbound(e)
<1>1. d # Null
  BY RawType, NullAssumption
<1>2. AsDict(ParseOutbound(e, speaks, k)) = d
  BY <1>1 DEF AsDict, ParseOutbound
<1>3. Meant(d, e)
  BY DEF Meant, Same, RawOutbound
<1> QED
  BY <1>2, <1>3

\* Renaming an outbound changes nothing else of what is stored.
LEMMA RetaggedType ==
    ASSUME NEW r \in OutboundInfo, NEW t \in Tag
    PROVE  /\ [r EXCEPT !.tag = t] \in OutboundInfo
           /\ [r EXCEPT !.tag = t].id = r.id
           /\ [r EXCEPT !.tag = t].tag = t
           /\ [r EXCEPT !.tag = t].protocol = r.protocol
BY DEF OutboundInfo

LEMMA RetaggedMeant ==
    ASSUME NEW r \in OutboundInfo, NEW t \in Tag, NEW e, Meant(AsDict(r), e)
    PROVE  Meant(AsDict([r EXCEPT !.tag = t]), e)
<1> DEFINE q == [r EXCEPT !.tag = t]
           c == OutboundInfoToXrayDict(r)
           d == OutboundInfoToXrayDict(q)
<1>1. /\ q.protocol = r.protocol /\ q.addressed = r.addressed /\ q.server = r.server
      /\ q.extra = r.extra /\ q.stream = r.stream /\ q.raw = Null /\ r.raw = Null
  BY DEF OutboundInfo
<1> HIDE DEF q
<1>2. AsDict(r) = c /\ AsDict(q) = d
  BY <1>1 DEF AsDict
<1>3. /\ d.protocol = c.protocol /\ d.network = c.network /\ d.security = c.security
      /\ d.extra = c.extra /\ d.addressed = c.addressed /\ d.server = c.server
      /\ d.settings = c.settings
  BY <1>1 DEF OutboundInfoToXrayDict
<1> HIDE DEF c, d
<1>4. Meant(d, e)
  BY <1>2, <1>3 DEF Meant
<1> QED
  BY <1>2, <1>4 DEF q

\* What is stored is a dict.
LEMMA AsDictType ==
    ASSUME NEW r \in OutboundInfo \cup XrayOutboundInfo
    PROVE  /\ AsDict(r) \in Dict
           /\ r \in OutboundInfo => AsDict(r).id = r.id /\ AsDict(r).tag = r.tag
<1>1. CASE r \in XrayOutboundInfo /\ r \notin OutboundInfo
  <2>1. r.raw \in Dict
    BY <1>1 DEF XrayOutboundInfo
  <2>2. r.raw # Null
    BY <2>1, NullAssumption
  <2> QED
    BY <1>1, <2>1, <2>2 DEF AsDict
<1>2. CASE r \in OutboundInfo
  <2> DEFINE served == r.addressed /\ r.protocol \in Rebuilt
             server == IF served THEN r.server ELSE "lost"
             extra == served /\ r.extra /\ r.protocol \in {"vless", "vmess"}
  <2>1. /\ r.id \in Nat /\ r.tag \in Tag /\ r.protocol \in Protocols /\ r.raw = Null
        /\ r.server \in {"own", "garbled"} /\ r.stream \in StreamInfo
    BY <1>2 DEF OutboundInfo
  <2>2. /\ r.stream.network \in Networks /\ r.stream.security \in Securities
        /\ r.stream.filled \in SUBSET Settings
    BY <2>1 DEF StreamInfo
  <2>3. StreamSettings(r.stream) \in SUBSET Settings
    BY <2>2 DEF StreamSettings
  <2>4. r.protocol \in Kinds
    BY <2>1 DEF Kinds
  <2>5. served \in BOOLEAN /\ extra \in BOOLEAN /\ server \in {"own", "garbled", "lost"}
    BY <2>1
  <2>6. AsDict(r) =
            [id |-> r.id, tag |-> r.tag, protocol |-> r.protocol, addressed |-> served,
             server |-> server, extra |-> extra, network |-> r.stream.network,
             security |-> r.stream.security, settings |-> StreamSettings(r.stream)]
    BY <2>1 DEF AsDict, OutboundInfoToXrayDict
  <2> HIDE DEF served, server, extra
  <2> QED
    BY <2>1, <2>2, <2>3, <2>4, <2>5, <2>6 DEF Dict
<1> QED
  BY <1>1, <1>2

-----------------------------------------------------------------------------
\* Renaming.

LEMMA FrontOfAppend ==
    ASSUME NEW s \in Seq(Nat), NEW n \in Nat
    PROVE  /\ Append(s, n) \in Seq(Nat) /\ Append(s, n) # << >>
           /\ Front(Append(s, n)) = s
           /\ Append(s, n)[Len(s) + 1] = n
<1> DEFINE a == Append(s, n)
           f == Front(a)
<1>1. /\ a \in Seq(Nat) /\ Len(a) = Len(s) + 1 /\ a # << >> /\ Len(s) \in Nat
      /\ a[Len(s) + 1] = n
      /\ \A i \in 1 .. Len(s) : a[i] = s[i]
  OBVIOUS
<1> HIDE DEF a
<1>2. f = SubSeq(a, 1, Len(s))
  <2>1. Len(a) - 1 = Len(s)
    BY <1>1
  <2> QED
    BY <2>1, Zenon DEF Front
<1>3. f \in Seq(Nat) /\ Len(f) = Len(s) /\ \A i \in 1 .. Len(s) : f[i] = s[i]
  BY <1>1, <1>2
<1> HIDE DEF f
<1>4. s = [i \in 1 .. Len(s) |-> s[i]] /\ f = [i \in 1 .. Len(f) |-> f[i]]
  BY <1>3
<1>5. f = s
  BY <1>3, <1>4
<1> QED
  BY <1>1, <1>5 DEF a, f

LEMMA NumberedIs ==
    ASSUME NEW t \in Tag, NEW n \in Nat
    PROVE  /\ Numbered(t, n) \in Tag
           /\ Numbered(t, n).numbers # << >>
           /\ t = [Numbered(t, n) EXCEPT !.numbers = Front(@)]
           /\ Numbered(t, n).numbers[Len(t.numbers) + 1] = n
<1>1. t.numbers \in Seq(Nat) /\ t = [name |-> t.name, numbers |-> t.numbers]
  BY DEF Tag
<1>2. Numbered(t, n) = [name |-> t.name, numbers |-> Append(t.numbers, n)]
  BY DEF Numbered, Tag
<1>3. /\ Append(t.numbers, n) \in Seq(Nat) /\ Append(t.numbers, n) # << >>
      /\ Front(Append(t.numbers, n)) = t.numbers
      /\ Append(t.numbers, n)[Len(t.numbers) + 1] = n
  BY <1>1, FrontOfAppend
<1>4. Numbered(t, n) \in Tag
  BY <1>2, <1>3 DEF Tag
<1>5. [Numbered(t, n) EXCEPT !.numbers = Front(@)] = [name |-> t.name, numbers |-> t.numbers]
  BY <1>2, <1>3
<1>6. Numbered(t, n).numbers = Append(t.numbers, n)
  BY <1>2
<1>7. t = [Numbered(t, n) EXCEPT !.numbers = Front(@)]
  BY <1>1, <1>5
<1> QED
  BY <1>3, <1>4, <1>6, <1>7

LEMMA NumberedOnce ==
    ASSUME NEW t \in Tag, NEW u \in Tag, NEW m \in Nat, NEW n \in Nat,
           Numbered(t, m) = Numbered(u, n)
    PROVE  t = u /\ m = n
<1>1. t = [Numbered(t, m) EXCEPT !.numbers = Front(@)]
  BY NumberedIs
<1>2. u = [Numbered(u, n) EXCEPT !.numbers = Front(@)]
  BY NumberedIs
<1>3. t = u
  BY <1>1, <1>2
<1>4. /\ Numbered(t, m).numbers[Len(t.numbers) + 1] = m
      /\ Numbered(u, n).numbers[Len(u.numbers) + 1] = n
  BY NumberedIs
<1> QED
  BY <1>3, <1>4

LEMMA EarlierCounts ==
    ASSUME NEW infos \in Seq(OutboundInfo)
    PROVE  /\ \A i \in 1 .. Len(infos) : Earlier(infos, i) \in Nat
           /\ \A i, k \in 1 .. Len(infos) :
                 i < k /\ infos[i].tag = infos[k].tag => Earlier(infos, i) < Earlier(infos, k)
<1> DEFINE B(i) == {j \in 1 .. i - 1 : infos[j].tag = infos[i].tag}
<1>1. ASSUME NEW i \in 1 .. Len(infos)
      PROVE  IsFiniteSet(B(i)) /\ Earlier(infos, i) = Cardinality(B(i)) /\ Earlier(infos, i) \in Nat
  <2>1. IsFiniteSet(1 .. i - 1)
    BY FS_Interval
  <2>2. B(i) \in SUBSET (1 .. i - 1)
    OBVIOUS
  <2>3. IsFiniteSet(B(i))
    BY <2>1, <2>2, FS_Subset
  <2>4. Cardinality(B(i)) \in Nat
    BY <2>3, FS_CardinalityType
  <2> QED
    BY <2>3, <2>4 DEF Earlier
<1>2. ASSUME NEW i \in 1 .. Len(infos), NEW k \in 1 .. Len(infos), i < k,
             infos[i].tag = infos[k].tag
      PROVE  Earlier(infos, i) < Earlier(infos, k)
  <2>1. B(i) \in SUBSET B(k) /\ i \in B(k) /\ i \notin B(i)
    BY <1>2
  <2> HIDE DEF B
  <2>2. Cardinality(B(i)) <= Cardinality(B(k)) /\ Cardinality(B(i)) # Cardinality(B(k))
    BY <2>1, <1>1, FS_Subset
  <2> QED
    BY <2>2, <1>1
<1> QED
  BY <1>1, <1>2

\* Only tags change, and for those that were there before.
LEMMA DedupIs ==
    ASSUME NEW infos \in Seq(OutboundInfo)
    PROVE  /\ DedupTags(infos) \in Seq(OutboundInfo)
           /\ Len(DedupTags(infos)) = Len(infos)
           /\ \A i \in 1 .. Len(infos) : \E t \in Tag :
                 /\ DedupTags(infos)[i] = [infos[i] EXCEPT !.tag = t]
                 /\ DedupTags(infos)[i].tag = t
                 /\ t = IF Earlier(infos, i) = 0 THEN infos[i].tag
                        ELSE Numbered(infos[i].tag, Earlier(infos, i))
<1> DEFINE d == DedupTags(infos)
<1>1. DOMAIN infos = 1 .. Len(infos) /\ Len(infos) \in Nat
  OBVIOUS
<1>2. d = [i \in 1 .. Len(infos) |->
              IF Earlier(infos, i) = 0 THEN infos[i]
              ELSE [infos[i] EXCEPT !.tag = Numbered(@, Earlier(infos, i))]]
  BY <1>1 DEF DedupTags
<1>3. ASSUME NEW i \in 1 .. Len(infos)
      PROVE  \E t \in Tag :
                 /\ d[i] = [infos[i] EXCEPT !.tag = t] /\ d[i].tag = t
                 /\ t = IF Earlier(infos, i) = 0 THEN infos[i].tag
                        ELSE Numbered(infos[i].tag, Earlier(infos, i))
                 /\ d[i] \in OutboundInfo
  <2> DEFINE t == IF Earlier(infos, i) = 0 THEN infos[i].tag
                  ELSE Numbered(infos[i].tag, Earlier(infos, i))
  <2>1. infos[i] \in OutboundInfo /\ infos[i].tag \in Tag /\ Earlier(infos, i) \in Nat
    <3>1. infos[i] \in OutboundInfo
      OBVIOUS
    <3>2. infos[i].tag \in Tag
      BY <3>1 DEF OutboundInfo
    <3>3. Earlier(infos, i) \in Nat
      BY EarlierCounts
    <3> QED
      BY <3>1, <3>2, <3>3
  <2>2. t \in Tag
    BY <2>1, NumberedIs
  <2>3. infos[i] = [infos[i] EXCEPT !.tag = infos[i].tag]
    BY <2>1 DEF OutboundInfo
  <2>4. d[i] = [infos[i] EXCEPT !.tag = t]
    BY <1>2, <2>3
  <2> HIDE DEF t, d
  <2>5. d[i] \in OutboundInfo /\ d[i].tag = t
    BY <2>1, <2>2, <2>4, RetaggedType
  <2>6. t = IF Earlier(infos, i) = 0 THEN infos[i].tag
            ELSE Numbered(infos[i].tag, Earlier(infos, i))
    BY DEF t
  <2> QED
    BY <2>2, <2>4, <2>5, <2>6, Zenon
<1>4. d = [i \in 1 .. Len(infos) |-> d[i]]
  BY <1>2
<1> HIDE DEF d
<1>5. \A i \in 1 .. Len(infos) : d[i] \in OutboundInfo
  BY <1>3, Zenon
<1>6. d \in Seq(OutboundInfo) /\ Len(d) = Len(infos)
  BY <1>1, <1>4, <1>5, SeqOfValues
<1> QED
  BY <1>3, <1>6, Zenon DEF d

\* One tag is what another becomes with a number.
LooksNumbered(t, u) == t.numbers # << >> /\ u = [t EXCEPT !.numbers = Front(@)]

\* Renamed tags are told apart, if none looks like a renamed one before.
LEMMA DedupApart ==
    ASSUME NEW infos \in Seq(OutboundInfo),
           \A x, y \in 1 .. Len(infos) : ~ LooksNumbered(infos[x].tag, infos[y].tag)
    PROVE  \A i, k \in 1 .. Len(infos) :
               DedupTags(infos)[i].tag = DedupTags(infos)[k].tag => i = k
<1> SUFFICES ASSUME NEW i \in 1 .. Len(infos), NEW k \in 1 .. Len(infos),
                    DedupTags(infos)[i].tag = DedupTags(infos)[k].tag, i # k
             PROVE  FALSE
  OBVIOUS
<1> DEFINE t(j) == infos[j].tag
           n(j) == Earlier(infos, j)
           q(j) == IF n(j) = 0 THEN t(j) ELSE Numbered(t(j), n(j))
<1>1. q(i) = q(k)
  <2>1. DedupTags(infos)[i].tag = q(i)
    BY DedupIs
  <2>2. DedupTags(infos)[k].tag = q(k)
    BY DedupIs
  <2> QED
    BY <2>1, <2>2
<1>2. \A j \in 1 .. Len(infos) : t(j) \in Tag
  <2>1. \A j \in 1 .. Len(infos) : infos[j] \in OutboundInfo
    OBVIOUS
  <2>2. \A r \in OutboundInfo : r.tag \in Tag
    BY DEF OutboundInfo
  <2> QED
    BY <2>1, <2>2
<1>3. n(i) \in Nat /\ n(k) \in Nat
  BY EarlierCounts
<1>4. t(i) = t(k) => n(i) # n(k)
  <2>1. i < k \/ k < i
    OBVIOUS
  <2>2. \A x, y \in 1 .. Len(infos) : x < y /\ t(x) = t(y) => n(x) < n(y)
    BY EarlierCounts
  <2> HIDE DEF t, n
  <2>3. t(i) = t(k) => n(i) < n(k) \/ n(k) < n(i)
    BY <2>1, <2>2
  <2> QED
    BY <2>3, <1>3
<1>5. \A x, y \in {i, k} : ~ LooksNumbered(t(x), t(y))
  OBVIOUS
<1> HIDE DEF t, n
<1>6. t(i) \in Tag /\ t(k) \in Tag
  BY <1>2
<1>7. ASSUME NEW x \in {i, k}, NEW y \in {i, k}, n(x) # 0
      PROVE  Numbered(t(x), n(x)) # t(y)
  <2>1. t(x) \in Tag /\ n(x) \in Nat
    BY <1>3, <1>6
  <2>2. /\ Numbered(t(x), n(x)).numbers # << >>
        /\ t(x) = [Numbered(t(x), n(x)) EXCEPT !.numbers = Front(@)]
    BY <2>1, NumberedIs
  <2>3. LooksNumbered(Numbered(t(x), n(x)), t(x))
    BY <2>2, Zenon DEF LooksNumbered
  <2> QED
    BY <2>3, <1>5
<1>8. CASE n(i) = 0 /\ n(k) = 0
  BY <1>1, <1>4, <1>8
<1>9. CASE n(i) # 0 /\ n(k) = 0
  BY <1>1, <1>7, <1>9
<1>10. CASE n(i) = 0 /\ n(k) # 0
  BY <1>1, <1>7, <1>10
<1>11. CASE n(i) # 0 /\ n(k) # 0
  <2>1. Numbered(t(i), n(i)) = Numbered(t(k), n(k))
    BY <1>1, <1>11
  <2>2. t(i) = t(k) /\ n(i) = n(k)
    BY <2>1, <1>3, <1>6, NumberedOnce
  <2> QED
    BY <2>2, <1>4
<1> QED
  BY <1>8, <1>9, <1>10, <1>11

-----------------------------------------------------------------------------
\* Lists of entries.

LEMMA AscendsThrough ==
    ASSUME NEW m, NEW n, NEW I, NEW J, NEW at, Ascends(m, n, I, at),
           \A i \in 1 .. n : i \in I <=> i \in J
    PROVE  Ascends(m, n, J, at)
<1>1. at \in [1 .. m -> 1 .. n] /\ \A j \in 1 .. m : at[j] \in I
  BY Zenon DEF Ascends
<1>2. \A j \in 1 .. m : at[j] \in J
  BY <1>1
<1>3. \A i \in 1 .. n : i \in J => \E j \in 1 .. m : at[j] = i
  BY Zenon DEF Ascends
<1> QED
  BY <1>2, <1>3, Zenon DEF Ascends

AnyInfo == OutboundInfo \cup XrayOutboundInfo

\* R is what the parsers make of L, one by one.
Results(L, R, dialect) ==
    /\ L \in Seq(Entry \cup {Null}) /\ R \in Seq(AnyInfo \cup {Null})
    /\ Len(L) = Len(R)
    /\ \A i \in 1 .. Len(L) :
          IF L[i] = Null THEN R[i] = Null ELSE Turns(L[i], R[i], dialect)

\* I leaves out what is no result, and at most what is no proxy.
Keeps(R, I) ==
    \A i \in 1 .. Len(R) :
        /\ i \in I => R[i] # Null
        /\ R[i] # Null /\ R[i].protocol \in Proxies => i \in I

OfferedAt(L, dialect) == {i \in DOMAIN L : L[i] # Null /\ Offered(L[i], dialect)}

\* The n-th member of the collection of D is the D[m] made of P[m], the result
\* of the n-th offer.
Comes(L, R, P, D, dialect, n) ==
    \E m \in 1 .. Len(P), i \in 1 .. Len(L) :
        /\ Collection(D)[n] = D[m] /\ P[m] = R[i]
        /\ Where(L, OfferedAt(L, dialect))[n] = L[i]
        /\ L[i] # Null /\ Offered(L[i], dialect)

LEMMA OffersCome ==
    ASSUME NEW L, NEW R, NEW I, NEW dialect, NEW D \in Seq(AnyInfo),
           Results(L, R, dialect), Keeps(R, I), Len(D) = Len(Where(R, I)),
           \A m \in 1 .. Len(D) : D[m].protocol = Where(R, I)[m].protocol
    PROVE  /\ Len(Collection(D)) = Len(Where(L, OfferedAt(L, dialect)))
           /\ \A n \in 1 .. Len(Collection(D)) : Comes(L, R, Where(R, I), D, dialect, n)
<1> DEFINE P == Where(R, I)
           J == {m \in DOMAIN D : D[m].protocol \in Proxies}
           C == Collection(D)
           X == OfferedAt(L, dialect)
           O == Where(L, X)
<1>1. /\ L \in Seq(Entry \cup {Null}) /\ R \in Seq(AnyInfo \cup {Null}) /\ Len(L) = Len(R)
      /\ Len(L) \in Nat
  BY DEF Results
<1>2. P \in Seq(AnyInfo \cup {Null}) /\ \E at : Selected(R, I, P, at)
  BY <1>1, WhereKeeps
<1>3. PICK at : Selected(R, I, P, at)
  BY <1>2
<1>4. C \in Seq(AnyInfo) /\ \E bt : Selected(D, J, C, bt)
  BY WhereKeeps DEF Collection
<1>5. PICK bt : Selected(D, J, C, bt)
  BY <1>4
<1>6. O \in Seq(Entry \cup {Null}) /\ \E ct : Selected(L, X, O, ct)
  BY <1>1, WhereKeeps
<1>7. PICK ct : Selected(L, X, O, ct)
  BY <1>6
<1>8. /\ DOMAIN D = 1 .. Len(D) /\ Len(D) = Len(P)
      /\ \A m \in 1 .. Len(P) : D[m].protocol = P[m].protocol
  OBVIOUS
<1> DEFINE K == {at[j] : j \in J \cap 1 .. Len(P)}
           dt == [j \in 1 .. Len(C) |-> at[bt[j]]]
<1> HIDE DEF P, C, O
<1>9. Ascends(Len(P), Len(L), I, at) /\ \A m \in 1 .. Len(P) : P[m] = R[at[m]]
  <2>1. Ascends(Len(P), Len(R), I, at) /\ \A m \in 1 .. Len(P) : P[m] = R[at[m]]
    BY <1>1, <1>2, <1>3, SelectedAscends
  <2> QED
    BY <2>1, <1>1
<1>10. Ascends(Len(C), Len(P), J, bt) /\ \A n \in 1 .. Len(C) : C[n] = D[bt[n]]
  <2>1. Ascends(Len(C), Len(D), J, bt) /\ \A n \in 1 .. Len(C) : C[n] = D[bt[n]]
    BY <1>4, <1>5, SelectedAscends
  <2> QED
    BY <2>1, <1>8
<1>11. Ascends(Len(O), Len(L), X, ct) /\ \A n \in 1 .. Len(O) : O[n] = L[ct[n]]
  BY <1>1, <1>6, <1>7, SelectedAscends
<1>12. /\ at \in [1 .. Len(P) -> 1 .. Len(L)] /\ bt \in [1 .. Len(C) -> 1 .. Len(P)]
       /\ \A m \in 1 .. Len(P) : at[m] \in I
       /\ \A i \in 1 .. Len(L) : i \in I => \E m \in 1 .. Len(P) : at[m] = i
  BY <1>9, <1>10, Zenon DEF Ascends
<1>13. \A m \in 1 .. Len(P) : m \in J <=> R[at[m]].protocol \in Proxies
  BY <1>8, <1>9
<1>14. \A i \in 1 .. Len(L) : i \in X <=> L[i] # Null /\ Offered(L[i], dialect)
  BY <1>1 DEF OfferedAt
<1> HIDE DEF J, X
<1>15. ASSUME NEW i \in 1 .. Len(L)
       PROVE  i \in X <=> R[i] # Null /\ R[i].protocol \in Proxies
  <2>1. CASE L[i] = Null
    <3>1. R[i] = Null
      BY <2>1 DEF Results
    <3> QED
      BY <2>1, <3>1, <1>14
  <2>2. CASE L[i] # Null /\ Offered(L[i], dialect)
    <3>1. Turns(L[i], R[i], dialect)
      BY <2>2 DEF Results
    <3>2. R[i] \in AnyInfo /\ R[i].protocol \in Proxies
      BY <2>2, <3>1 DEF Turns, AnyInfo
    <3>3. R[i] # Null
      BY <3>2, NullAssumption DEF AnyInfo
    <3> QED
      BY <2>2, <3>2, <3>3, <1>14
  <2>3. CASE L[i] # Null /\ ~ Offered(L[i], dialect)
    <3>1. Turns(L[i], R[i], dialect)
      BY <2>3 DEF Results
    <3>2. R[i] = Null \/ R[i].protocol \notin Proxies
      BY <2>3, <3>1 DEF Turns
    <3> QED
      BY <2>3, <3>2, <1>14
  <2> QED
    BY <2>1, <2>2, <2>3
<1>16. ASSUME NEW i \in 1 .. Len(L)
       PROVE  i \in K <=> i \in X
  <2>1. ASSUME i \in K PROVE i \in X
    <3>1. PICK j \in J \cap 1 .. Len(P) : i = at[j]
      BY <2>1
    <3>2. R[i].protocol \in Proxies /\ i \in I
      BY <3>1, <1>12, <1>13
    <3>3. R[i] # Null
      BY <3>2, <1>1 DEF Keeps
    <3> QED
      BY <3>2, <3>3, <1>15
  <2>2. ASSUME i \in X PROVE i \in K
    <3>1. R[i] # Null /\ R[i].protocol \in Proxies
      BY <2>2, <1>15
    <3>2. i \in I
      BY <3>1, <1>1 DEF Keeps
    <3>3. PICK m \in 1 .. Len(P) : at[m] = i
      BY <3>2, <1>12
    <3>4. m \in J
      BY <3>1, <3>3, <1>13
    <3> QED
      BY <3>3, <3>4
  <2> QED
    BY <2>1, <2>2
<1>17. Ascends(Len(C), Len(L), K, dt)
  BY <1>9, <1>10, AscendsAgain
<1>18. \A n \in 1 .. Len(C) : dt[n] = at[bt[n]]
  OBVIOUS
<1> HIDE DEF K, dt
<1>19. Ascends(Len(C), Len(L), X, dt)
  BY <1>16, <1>17, AscendsThrough
<1>20. Len(C) = Len(O) /\ \A n \in 1 .. Len(C) : dt[n] = ct[n]
  BY <1>11, <1>19, AscendsOnce
<1>21. ASSUME NEW n \in 1 .. Len(C)
       PROVE  Comes(L, R, P, D, dialect, n)
  <2> DEFINE m == bt[n]
             i == ct[n]
  <2>1. m \in 1 .. Len(P) /\ at[m] = i /\ i \in 1 .. Len(L) /\ i \in X
    <3>1. m \in 1 .. Len(P) /\ at[m] \in 1 .. Len(L) /\ at[m] = i
      BY <1>12, <1>18, <1>20
    <3>2. n \in 1 .. Len(O)
      BY <1>20
    <3>3. ct[n] \in X
      BY <3>2, <1>11, Zenon DEF Ascends
    <3> QED
      BY <3>1, <3>3
  <2>2. C[n] = D[m] /\ P[m] = R[i]
    BY <2>1, <1>9, <1>10
  <2>3. O[n] = L[i]
    BY <1>11, <1>20
  <2>4. L[i] # Null /\ Offered(L[i], dialect)
    BY <2>1, <1>14
  <2> HIDE DEF m, i
  <2> QED
    BY <2>1, <2>2, <2>3, <2>4, Zenon DEF Comes, C, O, X
<1> QED
  BY <1>20, <1>21 DEF P, C, O, X

LEMMA WhereNothing ==
    ASSUME NEW S, NEW p \in Seq(S), NEW I, \A i \in 1 .. Len(p) : i \notin I
    PROVE  Where(p, I) = << >>
<1> DEFINE s == Where(p, I)
<1>1. s \in Seq(S) /\ \E at : Selected(p, I, s, at)
  BY WhereKeeps
<1>2. PICK at : Selected(p, I, s, at)
  BY <1>1
<1> HIDE DEF s
<1>3. \A n \in 1 .. Len(s) : FALSE
  BY <1>2 DEF Selected
<1>4. s = << >>
  BY <1>1, <1>3
<1> QED
  BY <1>4 DEF s

LEMMA UriResultsAre ==
    ASSUME NEW L \in Seq(Entry \cup {Null})
    PROVE  /\ Results(L, UriResults(L), "uri")
           /\ UriResults(L) \in Seq(OutboundInfo \cup {Null})
           /\ \A i \in 1 .. Len(L) : L[i] # Null => UriResults(L)[i] = ParseUri(L[i])
<1> DEFINE R == UriResults(L)
<1>1. DOMAIN L = 1 .. Len(L) /\ Len(L) \in Nat
  OBVIOUS
<1>2. R = [i \in 1 .. Len(L) |-> IF L[i] = Null THEN Null ELSE ParseUri(L[i])]
  BY <1>1 DEF UriResults
<1>3. /\ R = [i \in 1 .. Len(L) |-> R[i]]
      /\ \A i \in 1 .. Len(L) : R[i] = IF L[i] = Null THEN Null ELSE ParseUri(L[i])
  BY <1>2
<1> HIDE DEF R
<1>4. ASSUME NEW i \in 1 .. Len(L)
      PROVE  /\ R[i] \in OutboundInfo \cup {Null}
             /\ L[i] # Null => Turns(L[i], R[i], "uri")
  <2>1. CASE L[i] = Null
    BY <2>1, <1>3
  <2>2. CASE L[i] # Null
    <3>1. L[i] \in Entry
      BY <2>2
    <3>2. R[i] = ParseUri(L[i])
      BY <2>2, <1>3
    <3> QED
      BY <3>1, <3>2, UriTurns
  <2> QED
    BY <2>1, <2>2
<1>5. R \in Seq(OutboundInfo \cup {Null}) /\ Len(R) = Len(L)
  BY <1>1, <1>3, <1>4, SeqOfValues
<1>6. R \in Seq(AnyInfo \cup {Null})
  <2>1. \A i \in 1 .. Len(L) : R[i] \in AnyInfo \cup {Null}
    BY <1>4 DEF AnyInfo
  <2> QED
    BY <2>1, <1>1, <1>3, SeqOfValues
<1>7. Results(L, R, "uri")
  BY <1>3, <1>4, <1>5, <1>6 DEF Results
<1> QED
  BY <1>3, <1>5, <1>7 DEF R

LEMMA SingboxResultsAre ==
    ASSUME NEW L \in Seq(Entry \cup {Null})
    PROVE  /\ Results(L, SingboxResults(L), "singbox")
           /\ SingboxResults(L) \in Seq(OutboundInfo \cup {Null})
           /\ \A i \in 1 .. Len(L) : L[i] # Null =>
                 SingboxResults(L)[i] = SingboxOutboundToInfo(L[i])
<1> DEFINE R == SingboxResults(L)
<1>1. DOMAIN L = 1 .. Len(L) /\ Len(L) \in Nat
  OBVIOUS
<1>2. R = [i \in 1 .. Len(L) |-> IF L[i] = Null THEN Null ELSE SingboxOutboundToInfo(L[i])]
  BY <1>1 DEF SingboxResults
<1>3. /\ R = [i \in 1 .. Len(L) |-> R[i]]
      /\ \A i \in 1 .. Len(L) : R[i] = IF L[i] = Null THEN Null ELSE SingboxOutboundToInfo(L[i])
  BY <1>2
<1> HIDE DEF R
<1>4. ASSUME NEW i \in 1 .. Len(L)
      PROVE  /\ R[i] \in OutboundInfo \cup {Null}
             /\ L[i] # Null => Turns(L[i], R[i], "singbox")
  <2>1. CASE L[i] = Null
    BY <2>1, <1>3
  <2>2. CASE L[i] # Null
    <3>1. L[i] \in Entry
      BY <2>2
    <3>2. R[i] = SingboxOutboundToInfo(L[i])
      BY <2>2, <1>3
    <3> QED
      BY <3>1, <3>2, SingboxTurns
  <2> QED
    BY <2>1, <2>2
<1>5. R \in Seq(OutboundInfo \cup {Null}) /\ Len(R) = Len(L)
  BY <1>1, <1>3, <1>4, SeqOfValues
<1>6. R \in Seq(AnyInfo \cup {Null})
  <2>1. \A i \in 1 .. Len(L) : R[i] \in AnyInfo \cup {Null}
    BY <1>4 DEF AnyInfo
  <2> QED
    BY <2>1, <1>1, <1>3, SeqOfValues
<1>7. Results(L, R, "singbox")
  BY <1>3, <1>4, <1>5, <1>6 DEF Results
<1> QED
  BY <1>3, <1>5, <1>7 DEF R

LEMMA OutboundsType ==
    ASSUME NEW c \in Config \cup {Null}
    PROVE  OutboundsOf(c) \in Seq(Entry \cup {Null})
<1>1. << >> \in Seq(Entry \cup {Null})
  OBVIOUS
<1>2. CASE c = Null
  BY <1>1, <1>2 DEF OutboundsOf
<1>3. CASE c # Null
  <2>1. c \in Config
    BY <1>3
  <2>2. c.outbounds \in Seq(Entry \cup {Null}) \cup {Null}
    BY <2>1 DEF Config
  <2> QED
    BY <2>2, <1>1, <1>3 DEF OutboundsOf
<1> QED
  BY <1>2, <1>3

\* The outbounds of all configurations of an answer, and what is read of them.
Listed(configs) == FlattenSeq([i \in DOMAIN configs |-> OutboundsOf(configs[i])])
Read(configs, speaks) == FlattenSeq([i \in DOMAIN configs |-> ParseTopLevel(configs[i], speaks)])

FromEntry(x, r, speaks) ==
    IF x = Null THEN r = Null ELSE \E k \in Nat : r = ParseOutbound(x, speaks, k)

LEMMA TopLevelPairs ==
    ASSUME NEW c \in Config \cup {Null}, NEW speaks, NEW R,
           R = {p \in (Entry \cup {Null}) \X (XrayOutboundInfo \cup {Null}) :
                   FromEntry(p[1], p[2], speaks)}
    PROVE  /\ ParseTopLevel(c, speaks) \in Seq(XrayOutboundInfo \cup {Null})
           /\ Paired(OutboundsOf(c), ParseTopLevel(c, speaks), R)
<1> DEFINE l == OutboundsOf(c)
           r == ParseTopLevel(c, speaks)
<1>1. l \in Seq(Entry \cup {Null})
  BY OutboundsType
<1>2. r = [i \in DOMAIN l |-> IF l[i] = Null THEN Null ELSE ParseOutbound(l[i], speaks, i - 1)]
  BY DEF ParseTopLevel
<1> HIDE DEF l, r
<1>3. DOMAIN l = 1 .. Len(l) /\ Len(l) \in Nat
  BY <1>1
<1>4. /\ r = [i \in 1 .. Len(l) |-> r[i]]
      /\ \A i \in 1 .. Len(l) : r[i] = IF l[i] = Null THEN Null ELSE ParseOutbound(l[i], speaks, i - 1)
  BY <1>2, <1>3
<1>5. ASSUME NEW i \in 1 .. Len(l)
      PROVE  /\ l[i] \in Entry \cup {Null} /\ r[i] \in XrayOutboundInfo \cup {Null}
             /\ FromEntry(l[i], r[i], speaks)
  <2>1. l[i] \in Entry \cup {Null}
    BY <1>1
  <2>2. CASE l[i] = Null
    BY <2>2, <1>4 DEF FromEntry
  <2>3. CASE l[i] # Null
    <3>1. l[i] \in Entry /\ i - 1 \in Nat
      BY <2>1, <2>3
    <3>2. r[i] = ParseOutbound(l[i], speaks, i - 1)
      BY <2>3, <1>4
    <3>3. r[i] \in XrayOutboundInfo
      BY <3>1, <3>2, XrayTurns
    <3>4. FromEntry(l[i], r[i], speaks)
      BY <3>1, <3>2, <2>3, Zenon DEF FromEntry
    <3> QED
      BY <2>1, <3>3, <3>4
  <2> QED
    BY <2>2, <2>3
<1>6. r \in Seq(XrayOutboundInfo \cup {Null}) /\ Len(r) = Len(l)
  BY <1>3, <1>4, <1>5, SeqOfValues
<1>7. \A i \in 1 .. Len(l) : <<l[i], r[i]>> \in R
  BY <1>5
<1>8. Paired(l, r, R)
  BY <1>6, <1>7 DEF Paired
<1> QED
  BY <1>6, <1>8 DEF l, r

LEMMA ReadIs ==
    ASSUME NEW configs \in Seq(Config \cup {Null}), NEW speaks
    PROVE  /\ Listed(configs) \in Seq(Entry \cup {Null})
           /\ Read(configs, speaks) \in Seq(XrayOutboundInfo \cup {Null})
           /\ Len(Listed(configs)) = Len(Read(configs, speaks))
           /\ \A i \in 1 .. Len(Listed(configs)) :
                 FromEntry(Listed(configs)[i], Read(configs, speaks)[i], speaks)
<1> DEFINE A == Entry \cup {Null}
           B == XrayOutboundInfo \cup {Null}
           R == {p \in A \X B : FromEntry(p[1], p[2], speaks)}
           ss == [i \in DOMAIN configs |-> OutboundsOf(configs[i])]
           tt == [i \in DOMAIN configs |-> ParseTopLevel(configs[i], speaks)]
           n == Len(configs)
<1>1. n \in Nat /\ DOMAIN configs = 1 .. n
  OBVIOUS
<1>2. \A i \in 1 .. n : configs[i] \in Config \cup {Null}
  OBVIOUS
<1>3. ASSUME NEW i \in 1 .. n
      PROVE  /\ ss[i] \in Seq(A) /\ tt[i] \in Seq(B) /\ Paired(ss[i], tt[i], R)
  <2>1. configs[i] \in Config \cup {Null} /\ i \in DOMAIN configs
    OBVIOUS
  <2>2. ss[i] = OutboundsOf(configs[i]) /\ tt[i] = ParseTopLevel(configs[i], speaks)
    BY <2>1
  <2> HIDE DEF ss, tt
  <2>3. OutboundsOf(configs[i]) \in Seq(A)
    BY <2>1, OutboundsType
  <2>4. /\ ParseTopLevel(configs[i], speaks) \in Seq(B)
        /\ Paired(OutboundsOf(configs[i]), ParseTopLevel(configs[i], speaks), R)
    BY <2>1, TopLevelPairs
  <2> QED
    BY <2>2, <2>3, <2>4
<1>4. ss = [i \in 1 .. n |-> ss[i]] /\ tt = [i \in 1 .. n |-> tt[i]]
  BY <1>1
<1>5. FlattenSeq(ss) = Listed(configs) /\ FlattenSeq(tt) = Read(configs, speaks)
  BY DEF Listed, Read
<1> HIDE DEF ss, tt, A, B, n
<1>6. ss \in Seq(Seq(A)) /\ Len(ss) = n
  BY <1>1, <1>3, <1>4, SeqOfValues
<1>7. tt \in Seq(Seq(B)) /\ Len(tt) = n
  BY <1>1, <1>3, <1>4, SeqOfValues
<1>8. FlattenSeq(ss) \in Seq(A) /\ FlattenSeq(tt) \in Seq(B)
  BY <1>6, <1>7, FlattenLaid
<1> HIDE DEF R
<1>9. Paired(FlattenSeq(ss), FlattenSeq(tt), R)
  BY <1>3, <1>6, <1>7, FlattenPairs
<1>10. /\ Len(FlattenSeq(ss)) = Len(FlattenSeq(tt))
       /\ \A i \in 1 .. Len(FlattenSeq(ss)) : <<FlattenSeq(ss)[i], FlattenSeq(tt)[i]>> \in R
  BY <1>9, Zenon DEF Paired
<1>11. \A x, y : <<x, y>> \in R => FromEntry(x, y, speaks)
  BY DEF R
<1> QED
  BY <1>5, <1>8, <1>10, <1>11 DEF A, B

LEMMA XrayResultsAre ==
    ASSUME NEW configs \in Seq(Config \cup {Null})
    PROVE  Results(Listed(configs), Read(configs, "xray"), "xray")
<1> DEFINE L == Listed(configs)
           R == Read(configs, "xray")
<1>1. /\ L \in Seq(Entry \cup {Null}) /\ R \in Seq(XrayOutboundInfo \cup {Null})
      /\ Len(L) = Len(R) /\ Len(L) \in Nat
      /\ \A i \in 1 .. Len(L) : FromEntry(L[i], R[i], "xray")
  BY ReadIs
<1> HIDE DEF L, R
<1>2. R \in Seq(AnyInfo \cup {Null})
  <2>1. R = [i \in 1 .. Len(L) |-> R[i]] /\ \A i \in 1 .. Len(L) : R[i] \in AnyInfo \cup {Null}
    BY <1>1 DEF AnyInfo
  <2> QED
    BY <2>1, <1>1, SeqOfValues
<1>3. ASSUME NEW i \in 1 .. Len(L), L[i] # Null
      PROVE  Turns(L[i], R[i], "xray")
  <2>1. L[i] \in Entry
    BY <1>1, <1>3
  <2>2. PICK k \in Nat : R[i] = ParseOutbound(L[i], "xray", k)
    BY <1>1, <1>3 DEF FromEntry
  <2> QED
    BY <2>1, <2>2, XrayTurns
<1>4. \A i \in 1 .. Len(L) : L[i] = Null => R[i] = Null
  BY <1>1 DEF FromEntry
<1>5. Results(L, R, "xray")
  BY <1>1, <1>2, <1>3, <1>4 DEF Results
<1> QED
  BY <1>5 DEF L, R
-----------------------------------------------------------------------------
\* The servers on offer and the collection made of them.

\* The n-th of the collection is stored as the n-th server on offer.
Fits(O, C, dialect) ==
    /\ O \in Seq(Entry \cup {Null}) /\ C \in Seq(AnyInfo) /\ Len(C) = Len(O)
    /\ \A n \in 1 .. Len(C) :
          /\ AsDict(C[n]).id = O[n].id
          /\ KnownLoss(O[n], dialect) \/ Meant(AsDict(C[n]), O[n])

\* The collection is stored with a tag for each, if no name looks numbered.
Apart(O, C, dialect) ==
    \/ \E x, y \in 1 .. Len(O) : LooksNumbered(NameOf(O[x], dialect), NameOf(O[y], dialect))
    \/ \A i, j \in 1 .. Len(C) : AsDict(C[i]).tag = AsDict(C[j]).tag => i = j

LEMMA NothingFits ==
    ASSUME NEW O, O = << >>, NEW C, C = << >>, NEW dialect
    PROVE  Fits(O, C, dialect) /\ Apart(O, C, dialect)
<1>1. /\ O \in Seq(Entry \cup {Null}) /\ C \in Seq(AnyInfo) /\ Len(C) = 0 /\ Len(O) = 0
      /\ \A n \in 1 .. Len(C) : FALSE
  OBVIOUS
<1> QED
  BY <1>1 DEF Fits, Apart

LEMMA DictsKeep ==
    ASSUME NEW S, Null \notin S, NEW R \in Seq(S \cup {Null}), NEW I,
           \A i \in 1 .. Len(R) : i \in I => R[i] # Null
    PROVE  /\ Where(R, I) \in Seq(S)
           /\ \A m \in 1 .. Len(Where(R, I)) : \E i \in 1 .. Len(R) : i \in I /\ Where(R, I)[m] = R[i]
<1> DEFINE P == Where(R, I)
<1>1. P \in Seq(S \cup {Null}) /\ \E at : Selected(R, I, P, at)
  BY WhereKeeps
<1>2. PICK at : Selected(R, I, P, at)
  BY <1>1
<1> HIDE DEF P
<1>3. ASSUME NEW m \in 1 .. Len(P)
      PROVE  at[m] \in 1 .. Len(R) /\ at[m] \in I /\ P[m] = R[at[m]] /\ P[m] \in S
  <2>1. at[m] \in 1 .. Len(R) /\ at[m] \in I /\ P[m] = R[at[m]]
    BY <1>2 DEF Selected
  <2>2. R[at[m]] \in S \cup {Null} /\ R[at[m]] # Null
    BY <2>1
  <2> QED
    BY <2>1, <2>2
<1>4. P = [m \in 1 .. Len(P) |-> P[m]] /\ Len(P) \in Nat
  BY <1>1
<1>5. P \in Seq(S)
  BY <1>3, <1>4, SeqOfValues
<1> QED
  BY <1>3, <1>5 DEF P

\* The URI lines or sing-box outbounds of an answer.
LEMMA RenamedFit ==
    ASSUME NEW L, NEW R \in Seq(OutboundInfo \cup {Null}), NEW I, NEW dialect,
           Results(L, R, dialect),
           \A i \in 1 .. Len(R) : i \in I <=> R[i] # Null /\ R[i].protocol \in Proxies,
           \A i \in 1 .. Len(L) : L[i] # Null /\ Offered(L[i], dialect) =>
               /\ R[i].tag = NameOf(L[i], dialect)
               /\ KnownLoss(L[i], dialect) \/ Meant(AsDict(R[i]), L[i])
    PROVE  /\ DedupTags(Where(R, I)) \in Seq(AnyInfo)
           /\ Fits(Where(L, OfferedAt(L, dialect)), Collection(DedupTags(Where(R, I))), dialect)
           /\ Apart(Where(L, OfferedAt(L, dialect)), Collection(DedupTags(Where(R, I))), dialect)
<1> DEFINE P == Where(R, I)
           D == DedupTags(P)
           J == {m \in DOMAIN D : D[m].protocol \in Proxies}
           C == Collection(D)
           X == OfferedAt(L, dialect)
           O == Where(L, X)
<1>1. /\ L \in Seq(Entry \cup {Null}) /\ Len(L) = Len(R) /\ Len(L) \in Nat
      /\ \A i \in 1 .. Len(L) : L[i] # Null => Turns(L[i], R[i], dialect)
      /\ \A i \in 1 .. Len(L) : L[i] = Null => R[i] = Null
  BY DEF Results
<1>2. Null \notin OutboundInfo
  BY NullAssumption
<1>3. /\ P \in Seq(OutboundInfo)
      /\ \A m \in 1 .. Len(P) : \E i \in 1 .. Len(R) : i \in I /\ P[m] = R[i]
  <2>1. \A i \in 1 .. Len(R) : i \in I => R[i] # Null
    OBVIOUS
  <2> QED
    BY <2>1, <1>2, DictsKeep
<1>4. /\ D \in Seq(OutboundInfo) /\ Len(D) = Len(P)
      /\ \A m \in 1 .. Len(P) : \E t \in Tag : D[m] = [P[m] EXCEPT !.tag = t]
  <2> HIDE DEF P
  <2>1. /\ DedupTags(P) \in Seq(OutboundInfo) /\ Len(DedupTags(P)) = Len(P)
        /\ \A m \in 1 .. Len(P) : \E t \in Tag :
              /\ DedupTags(P)[m] = [P[m] EXCEPT !.tag = t]
              /\ DedupTags(P)[m].tag = t
              /\ t = IF Earlier(P, m) = 0 THEN P[m].tag ELSE Numbered(P[m].tag, Earlier(P, m))
    BY <1>3, DedupIs
  <2> QED
    BY <2>1, Zenon
<1>5. /\ C \in Seq(OutboundInfo) /\ \E bt : Selected(D, J, C, bt)
  <2> HIDE DEF P, D
  <2> QED
    BY <1>4, WhereKeeps DEF Collection
<1>6. PICK bt : Selected(D, J, C, bt)
  BY <1>5
<1>7. O \in Seq(Entry \cup {Null}) /\ \E ct : Selected(L, X, O, ct)
  BY <1>1, WhereKeeps
<1>8. PICK ct : Selected(L, X, O, ct)
  BY <1>7
<1>9. Keeps(R, I)
  BY DEF Keeps
<1>10. D \in Seq(AnyInfo) /\ C \in Seq(AnyInfo)
  <2> HIDE DEF P, D, C
  <2> QED
    BY <1>4, <1>5 DEF AnyInfo
<1>11. \A m \in 1 .. Len(D) : D[m].protocol = P[m].protocol /\ D[m].id = P[m].id
  <2> HIDE DEF P, D, C
  <2> SUFFICES ASSUME NEW m \in 1 .. Len(P)
               PROVE  D[m].protocol = P[m].protocol /\ D[m].id = P[m].id
    BY <1>4
  <2>1. P[m] \in OutboundInfo
    BY <1>3
  <2>2. PICK t \in Tag : D[m] = [P[m] EXCEPT !.tag = t]
    BY <1>4
  <2> QED
    BY <2>1, <2>2, RetaggedType
<1>12. Len(C) = Len(O) /\ \A n \in 1 .. Len(C) : Comes(L, R, P, D, dialect, n)
  BY <1>4, <1>9, <1>10, <1>11, OffersCome
<1>13. ASSUME NEW n \in 1 .. Len(C)
       PROVE  /\ AsDict(C[n]).id = O[n].id
              /\ KnownLoss(O[n], dialect) \/ Meant(AsDict(C[n]), O[n])
  <2>1. \E m \in 1 .. Len(P), i \in 1 .. Len(L) :
            /\ C[n] = D[m] /\ P[m] = R[i] /\ O[n] = L[i]
            /\ L[i] # Null /\ Offered(L[i], dialect)
    <3>1. Comes(L, R, P, D, dialect, n)
      BY <1>12
    <3> HIDE DEF P, D
    <3> QED
      BY <3>1, Zenon DEF Comes
  <2> HIDE DEF P, D, C, O
  <2>2. PICK m \in 1 .. Len(P), i \in 1 .. Len(L) :
            /\ C[n] = D[m] /\ P[m] = R[i] /\ O[n] = L[i]
            /\ L[i] # Null /\ Offered(L[i], dialect)
    BY <2>1
  <2>3. R[i].id = L[i].id
    <3>1. Turns(L[i], R[i], dialect)
      BY <1>1, <2>2
    <3> QED
      BY <3>1, <2>2 DEF Turns
  <2>4. P[m] \in OutboundInfo /\ D[m] \in OutboundInfo /\ D[m].id = P[m].id
    BY <1>3, <1>4, <1>11
  <2>5. AsDict(D[m]).id = D[m].id
    BY <2>4, AsDictType
  <2>6. PICK t \in Tag : D[m] = [P[m] EXCEPT !.tag = t]
    BY <1>4
  <2>7. Meant(AsDict(P[m]), O[n]) => Meant(AsDict(D[m]), O[n])
    BY <2>4, <2>6, RetaggedMeant
  <2>8. KnownLoss(L[i], dialect) \/ Meant(AsDict(R[i]), L[i])
    BY <2>2
  <2> QED
    BY <2>2, <2>3, <2>4, <2>5, <2>7, <2>8
<1>14. Fits(O, C, dialect)
  <2> HIDE DEF P, D, C, O
  <2> QED
    BY <1>7, <1>10, <1>12, <1>13 DEF Fits
<1>15. Apart(O, C, dialect)
  <2> HIDE DEF P, D, C, O
  <2> SUFFICES ASSUME \A x, y \in 1 .. Len(O) :
                         ~ LooksNumbered(NameOf(O[x], dialect), NameOf(O[y], dialect)),
                      NEW i \in 1 .. Len(C), NEW j \in 1 .. Len(C),
                      AsDict(C[i]).tag = AsDict(C[j]).tag
               PROVE  i = j
    BY Zenon DEF Apart
  <2>1. ASSUME NEW m \in 1 .. Len(P)
        PROVE  \E n \in 1 .. Len(O) : P[m].tag = NameOf(O[n], dialect)
    <3>1. PICK k \in 1 .. Len(R) : k \in I /\ P[m] = R[k]
      BY <1>3
    <3>2. R[k] # Null /\ R[k].protocol \in Proxies /\ k \in 1 .. Len(L)
      BY <3>1, <1>1
    <3>3. L[k] # Null
      BY <3>2, <1>1
    <3>4. Turns(L[k], R[k], dialect)
      BY <3>2, <3>3, <1>1
    <3>5. Offered(L[k], dialect)
      BY <3>2, <3>4 DEF Turns
    <3>6. R[k].tag = NameOf(L[k], dialect)
      BY <3>2, <3>3, <3>5
    <3>7. k \in X
      BY <3>2, <3>3, <3>5, <1>1 DEF OfferedAt
    <3> HIDE DEF X
    <3>8. PICK n \in 1 .. Len(O) : ct[n] = k
      BY <3>2, <3>7, <1>8 DEF Selected
    <3>9. O[n] = L[k]
      BY <3>8, <1>8 DEF Selected
    <3> QED
      BY <3>1, <3>6, <3>8, <3>9
  <2>2. \A x, y \in 1 .. Len(P) : ~ LooksNumbered(P[x].tag, P[y].tag)
    BY <2>1
  <2>3. \A x, y \in 1 .. Len(P) : D[x].tag = D[y].tag => x = y
    <3>1. \A x, y \in 1 .. Len(P) : DedupTags(P)[x].tag = DedupTags(P)[y].tag => x = y
      BY <1>3, <2>2, DedupApart
    <3> QED
      BY <3>1 DEF D
  <2>4. /\ bt[i] \in 1 .. Len(P) /\ bt[j] \in 1 .. Len(P)
        /\ C[i] = D[bt[i]] /\ C[j] = D[bt[j]]
        /\ i < j => bt[i] < bt[j]
        /\ j < i => bt[j] < bt[i]
    <3> HIDE DEF J
    <3>1. /\ bt \in [1 .. Len(C) -> 1 .. Len(D)]
          /\ \A n \in 1 .. Len(C) : C[n] = D[bt[n]]
          /\ \A m, n \in 1 .. Len(C) : m < n => bt[m] < bt[n]
      BY <1>6 DEF Selected
    <3> QED
      BY <3>1, <1>4
  <2>5. C[i] \in OutboundInfo /\ C[j] \in OutboundInfo
    BY <1>5
  <2>6. C[i].tag = C[j].tag
    BY <2>5, AsDictType
  <2>7. bt[i] = bt[j]
    BY <2>3, <2>4, <2>6
  <2>8. Len(C) \in Nat
    BY <1>5
  <2> QED
    BY <2>4, <2>7, <2>8
<1> QED
  BY <1>10, <1>14, <1>15
LEMMA UriNothing ==
    ASSUME NEW e \in Entry, ~ Offered(e, "uri")
    PROVE  ParseUri(e) = Null
<1>1. e.form \in {"usual", "odd"}
  BY DEF Entry
<1> QED
  BY <1>1 DEF Offered, ParseUri, ParseVmessUri, ParseVlessUri, ParseTrojanUri, ParseSsUri, ParseHy2Uri

LEMMA UriFit ==
    ASSUME NEW L \in Seq(Entry \cup {Null}),
           \A i \in 1 .. Len(L) : L[i] # Null => Sayable(L[i], "uri")
    PROVE  /\ DedupTags(ParseUriList(L)) \in Seq(AnyInfo)
           /\ Fits(Where(L, OfferedAt(L, "uri")), Collection(DedupTags(ParseUriList(L))), "uri")
           /\ Apart(Where(L, OfferedAt(L, "uri")), Collection(DedupTags(ParseUriList(L))), "uri")
<1> DEFINE R == UriResults(L)
           I == {i \in DOMAIN R : R[i] # Null}
<1>1. /\ Results(L, R, "uri") /\ R \in Seq(OutboundInfo \cup {Null})
      /\ \A i \in 1 .. Len(L) : L[i] # Null => R[i] = ParseUri(L[i])
  BY UriResultsAre
<1>2. ParseUriList(L) = Where(R, I)
  BY DEF ParseUriList, Dicts
<1> HIDE DEF R
<1>3. Len(R) = Len(L) /\ DOMAIN R = 1 .. Len(R)
  BY <1>1 DEF Results
<1>4. ASSUME NEW i \in 1 .. Len(R), R[i] # Null
      PROVE  R[i].protocol \in Proxies
  <2>1. L[i] # Null
    BY <1>1, <1>3, <1>4 DEF Results
  <2>2. L[i] \in Entry /\ R[i] = ParseUri(L[i]) /\ Turns(L[i], R[i], "uri")
    BY <2>1, <1>1, <1>3 DEF Results
  <2>3. Offered(L[i], "uri")
    BY <2>2, <1>4, UriNothing
  <2> QED
    BY <2>2, <2>3 DEF Turns
<1>5. \A i \in 1 .. Len(R) : i \in I <=> R[i] # Null /\ R[i].protocol \in Proxies
  BY <1>3, <1>4
<1>6. ASSUME NEW i \in 1 .. Len(L), L[i] # Null, Offered(L[i], "uri")
      PROVE  /\ R[i].tag = NameOf(L[i], "uri")
             /\ KnownLoss(L[i], "uri") \/ Meant(AsDict(R[i]), L[i])
  <2>1. L[i] \in Entry /\ R[i] = ParseUri(L[i]) /\ Sayable(L[i], "uri")
    BY <1>1, <1>6
  <2>2. KnownLoss(L[i], "uri") \/ Meant(AsDict(R[i]), L[i])
    BY <2>1, <1>6, UriMeant
  <2>3. R[i].tag = NameOf(L[i], "uri")
    BY <2>1 DEF NameOf
  <2> QED
    BY <2>2, <2>3
<1> HIDE DEF I
<1>7. /\ DedupTags(Where(R, I)) \in Seq(AnyInfo)
      /\ Fits(Where(L, OfferedAt(L, "uri")), Collection(DedupTags(Where(R, I))), "uri")
      /\ Apart(Where(L, OfferedAt(L, "uri")), Collection(DedupTags(Where(R, I))), "uri")
  BY <1>1, <1>5, <1>6, RenamedFit
<1> QED
  BY <1>2, <1>7

LEMMA SingboxFit ==
    ASSUME NEW L \in Seq(Entry \cup {Null}),
           \A i \in 1 .. Len(L) : L[i] # Null => Sayable(L[i], "singbox"),
           ~ (\E i \in DOMAIN L : L[i] # Null /\ RaisesInSingbox(L[i]))
    PROVE  /\ DedupTags(ParseSingboxJson(L)) \in Seq(AnyInfo)
           /\ Fits(Where(L, OfferedAt(L, "singbox")),
                   Collection(DedupTags(ParseSingboxJson(L))), "singbox")
           /\ Apart(Where(L, OfferedAt(L, "singbox")),
                    Collection(DedupTags(ParseSingboxJson(L))), "singbox")
<1> DEFINE R == SingboxResults(L)
           I == {i \in DOMAIN R : R[i] # Null /\ R[i].protocol \in Proxies}
<1>1. /\ Results(L, R, "singbox") /\ R \in Seq(OutboundInfo \cup {Null})
      /\ \A i \in 1 .. Len(L) : L[i] # Null => R[i] = SingboxOutboundToInfo(L[i])
  BY SingboxResultsAre
<1>2. ParseSingboxJson(L) = Where(R, I)
  BY DEF ParseSingboxJson
<1> HIDE DEF R
<1>3. Len(R) = Len(L) /\ DOMAIN R = 1 .. Len(R)
  BY <1>1 DEF Results
<1>4. \A i \in 1 .. Len(R) : i \in I <=> R[i] # Null /\ R[i].protocol \in Proxies
  BY <1>3
<1>5. ASSUME NEW i \in 1 .. Len(L), L[i] # Null, Offered(L[i], "singbox")
      PROVE  /\ R[i].tag = NameOf(L[i], "singbox")
             /\ KnownLoss(L[i], "singbox") \/ Meant(AsDict(R[i]), L[i])
  <2>1. /\ L[i] \in Entry /\ R[i] = SingboxOutboundToInfo(L[i]) /\ Sayable(L[i], "singbox")
        /\ ~ RaisesInSingbox(L[i])
    BY <1>1, <1>5
  <2>2. KnownLoss(L[i], "singbox") \/ Meant(AsDict(R[i]), L[i])
    BY <2>1, <1>5, SingboxMeant
  <2>3. R[i].tag = NameOf(L[i], "singbox")
    BY <2>1 DEF NameOf
  <2> QED
    BY <2>2, <2>3
<1> HIDE DEF I
<1>6. /\ DedupTags(Where(R, I)) \in Seq(AnyInfo)
      /\ Fits(Where(L, OfferedAt(L, "singbox")), Collection(DedupTags(Where(R, I))), "singbox")
      /\ Apart(Where(L, OfferedAt(L, "singbox")), Collection(DedupTags(Where(R, I))), "singbox")
  BY <1>1, <1>4, <1>5, RenamedFit
<1> QED
  BY <1>2, <1>6

LEMMA LoadedDicts ==
    ASSUME NEW configs \in Seq(Config \cup {Null}), NEW speaks
    PROVE  /\ LoadDicts(configs, speaks) \in Seq(XrayOutboundInfo)
           /\ \A m \in 1 .. Len(LoadDicts(configs, speaks)) :
                 \E i \in 1 .. Len(Read(configs, speaks)) :
                    /\ Read(configs, speaks)[i] # Null
                    /\ LoadDicts(configs, speaks)[m] = Read(configs, speaks)[i]
<1> DEFINE R == Read(configs, speaks)
           I == {i \in DOMAIN R : R[i] # Null}
           P == LoadDicts(configs, speaks)
<1>1. R \in Seq(XrayOutboundInfo \cup {Null})
  BY ReadIs
<1>2. P = Where(R, I)
  BY DEF LoadDicts, Dicts, Read
<1>3. Null \notin XrayOutboundInfo
  BY NullAssumption
<1>4. \A i \in 1 .. Len(R) : i \in I => R[i] # Null
  OBVIOUS
<1>5. /\ Where(R, I) \in Seq(XrayOutboundInfo)
      /\ \A m \in 1 .. Len(Where(R, I)) : \E i \in 1 .. Len(R) : i \in I /\ Where(R, I)[m] = R[i]
  <2> HIDE DEF I
  <2> QED
    BY <1>1, <1>3, <1>4, DictsKeep
<1> HIDE DEF P
<1>6. \A m \in 1 .. Len(P) : \E i \in 1 .. Len(R) : R[i] # Null /\ P[m] = R[i]
  BY <1>2, <1>4, <1>5
<1>7. P \in Seq(XrayOutboundInfo)
  BY <1>2, <1>5
<1> QED
  BY <1>6, <1>7 DEF P

LEMMA XrayFit ==
    ASSUME NEW configs \in Seq(Config \cup {Null}), NEW L, L = Listed(configs)
    PROVE  /\ LoadDicts(configs, "xray") \in Seq(AnyInfo)
           /\ Fits(Where(L, OfferedAt(L, "xray")), Collection(LoadDicts(configs, "xray")), "xray")
<1> DEFINE R == Read(configs, "xray")
           I == {i \in DOMAIN R : R[i] # Null}
           P == LoadDicts(configs, "xray")
           C == Collection(P)
           O == Where(L, OfferedAt(L, "xray"))
<1>1. Results(L, R, "xray")
  BY XrayResultsAre
<1>2. P = Where(R, I) /\ P \in Seq(XrayOutboundInfo)
  <2>1. P = Where(R, I)
    BY DEF LoadDicts, Dicts, Read
  <2>2. P \in Seq(XrayOutboundInfo)
    BY LoadedDicts
  <2> QED
    BY <2>1, <2>2
<1>3. /\ L \in Seq(Entry \cup {Null}) /\ Len(L) = Len(R) /\ DOMAIN R = 1 .. Len(R)
      /\ \A i \in 1 .. Len(L) : FromEntry(L[i], R[i], "xray")
  BY ReadIs
<1> HIDE DEF R, P
<1>4. Keeps(R, I)
  BY <1>3 DEF Keeps
<1> HIDE DEF I
<1>5. P \in Seq(AnyInfo)
  BY <1>2 DEF AnyInfo
<1>6. C \in Seq(AnyInfo)
  BY <1>5, WhereKeeps DEF Collection
<1>7. O \in Seq(Entry \cup {Null})
  BY <1>3, WhereKeeps
<1>8. Len(C) = Len(O) /\ \A n \in 1 .. Len(C) : Comes(L, R, P, P, "xray", n)
  <2>1. /\ Len(Collection(P)) = Len(Where(L, OfferedAt(L, "xray")))
        /\ \A n \in 1 .. Len(Collection(P)) : Comes(L, R, Where(R, I), P, "xray", n)
    BY <1>1, <1>2, <1>4, <1>5, OffersCome
  <2> QED
    BY <2>1, <1>2
<1> HIDE DEF C, O
<1>9. ASSUME NEW n \in 1 .. Len(C)
      PROVE  AsDict(C[n]).id = O[n].id /\ Meant(AsDict(C[n]), O[n])
  <2>1. Comes(L, R, P, P, "xray", n)
    BY <1>8
  <2>2. PICK m \in 1 .. Len(P), i \in 1 .. Len(L) :
            C[n] = P[m] /\ P[m] = R[i] /\ O[n] = L[i] /\ L[i] # Null
    BY <2>1, Zenon DEF Comes, C, O
  <2>3. L[i] \in Entry
    BY <2>2, <1>3
  <2>4. PICK k \in Nat : R[i] = ParseOutbound(L[i], "xray", k)
    BY <2>2, <1>3 DEF FromEntry
  <2>5. AsDict(ParseOutbound(L[i], "xray", k)).id = L[i].id
    <3>1. RawOutbound(L[i]) # Null
      BY <2>3, RawType, NullAssumption
    <3> QED
      BY <3>1 DEF AsDict, ParseOutbound, RawOutbound
  <2>6. Meant(AsDict(ParseOutbound(L[i], "xray", k)), L[i])
    BY <2>3, XrayMeant
  <2> QED
    BY <2>2, <2>4, <2>5, <2>6
<1>10. Fits(O, C, "xray")
  BY <1>6, <1>7, <1>8, <1>9 DEF Fits
<1> QED
  BY <1>5, <1>10 DEF C, O, P

\* A sing-box document read as an xray one.
LEMMA SingboxAsXray ==
    ASSUME NEW configs \in Seq(Config \cup {Null})
    PROVE  /\ LoadDicts(configs, "singbox") \in Seq(AnyInfo)
           /\ Collection(LoadDicts(configs, "singbox")) = << >>
<1> DEFINE R == Read(configs, "singbox")
           P == LoadDicts(configs, "singbox")
           L == Listed(configs)
<1>1. /\ P \in Seq(XrayOutboundInfo)
      /\ \A m \in 1 .. Len(P) : \E i \in 1 .. Len(R) : R[i] # Null /\ P[m] = R[i]
  BY LoadedDicts
<1>2. /\ L \in Seq(Entry \cup {Null}) /\ Len(L) = Len(R)
      /\ \A i \in 1 .. Len(L) : FromEntry(L[i], R[i], "singbox")
  BY ReadIs
<1> HIDE DEF R, P, L
<1>3. ASSUME NEW m \in 1 .. Len(P)
      PROVE  P[m].protocol \notin Proxies
  <2>1. PICK i \in 1 .. Len(R) : R[i] # Null /\ P[m] = R[i]
    BY <1>1
  <2>2. FromEntry(L[i], R[i], "singbox") /\ L[i] \in Entry \cup {Null}
    BY <1>2
  <2>3. PICK k \in Nat : L[i] # Null /\ R[i] = ParseOutbound(L[i], "singbox", k)
    BY <2>1, <2>2 DEF FromEntry
  <2> QED
    BY <2>1, <2>2, <2>3, XrayTurns
<1>4. P \in Seq(AnyInfo)
  BY <1>1 DEF AnyInfo
<1>5. Collection(P) = << >>
  <2> DEFINE J == {i \in DOMAIN P : P[i].protocol \in Proxies}
  <2>1. \A i \in 1 .. Len(P) : i \notin J
    BY <1>3
  <2> HIDE DEF J
  <2>2. Where(P, J) = << >>
    BY <2>1, <1>4, WhereNothing
  <2> QED
    BY <2>2 DEF Collection, J
<1> QED
  BY <1>4, <1>5 DEF P
-----------------------------------------------------------------------------
\* One answer.

\* What Load leaves in parser.outbounds.
Loaded(f, t) ==
    CASE f = "xray_json" -> LoadString(t)
      [] f = "singbox_json" ->
            IF \E i \in DOMAIN t.configs[1].outbounds :
                  /\ t.configs[1].outbounds[i] # Null
                  /\ RaisesInSingbox(t.configs[1].outbounds[i])
            THEN <<>> ELSE DedupTags(ParseSingboxJson(t.configs[1].outbounds))
      [] f = "uri_list" -> DedupTags(ParseUriList(t.lines))
      [] f = "xray_json_array" -> LoadDicts(t.configs, t.speaks)
      [] OTHER -> <<>>

Parsed(b) == Loaded(DetectSubFormat(Decoded(b)), Decoded(b))

\* What is parsed of an answer is stored as the servers it offers.
Answers(b, P) ==
    /\ P \in Seq(AnyInfo)
    /\ Fits(Offers(b), Collection(P), b.speaks)
    /\ b.speaks # "xray" => Apart(Offers(b), Collection(P), b.speaks)

LEMMA NothingCollected ==
    ASSUME NEW P, P = << >>
    PROVE  P \in Seq(AnyInfo) /\ Collection(P) = << >>
<1> DEFINE J == {i \in DOMAIN P : P[i].protocol \in Proxies}
<1>1. P \in Seq(AnyInfo) /\ Len(P) = 0
  OBVIOUS
<1>2. \A i \in 1 .. Len(P) : i \notin J
  BY <1>1
<1> HIDE DEF J
<1>3. Where(P, J) = << >>
  BY <1>1, <1>2, WhereNothing
<1> QED
  BY <1>1, <1>3 DEF Collection, J

LEMMA NothingAnswers ==
    ASSUME NEW b, NEW P, P \in Seq(AnyInfo), Collection(P) = << >>, Offers(b) = << >>
    PROVE  Answers(b, P)
BY NothingFits DEF Answers

LEMMA BodyType ==
    ASSUME NEW b \in Body
    PROVE  /\ b.speaks \in {"uri", "singbox", "xray"} /\ b.wrapped \in BOOLEAN
           /\ b.opens \in {"object", "array", "text"} /\ b.comments \in {"none", "comments", "slashes"}
           /\ b.configs \in Seq(Config \cup {Null}) /\ b.lines \in Seq(Entry \cup {Null})
           /\ b.clash \in BOOLEAN
           /\ [b EXCEPT !.wrapped = FALSE] \in Body
           /\ [b EXCEPT !.wrapped = FALSE].wrapped = FALSE
           /\ [b EXCEPT !.wrapped = FALSE].speaks = b.speaks
           /\ [b EXCEPT !.wrapped = FALSE].opens = b.opens
           /\ [b EXCEPT !.wrapped = FALSE].comments = b.comments
           /\ [b EXCEPT !.wrapped = FALSE].configs = b.configs
           /\ [b EXCEPT !.wrapped = FALSE].lines = b.lines
           /\ [b EXCEPT !.wrapped = FALSE].clash = b.clash
BY DEF Body

LEMMA EntriesType ==
    ASSUME NEW b \in Body
    PROVE  /\ Entries(b) \in Seq(Entry \cup {Null})
           /\ b.opens = "text" => Entries(b) = b.lines
           /\ b.opens # "text" => Entries(b) = Listed(b.configs)
<1>1. b.configs \in Seq(Config \cup {Null}) /\ b.lines \in Seq(Entry \cup {Null})
  BY BodyType
<1>2. Listed(b.configs) \in Seq(Entry \cup {Null})
  BY <1>1, ReadIs
<1>3. b.opens = "text" => Entries(b) = b.lines
  BY DEF Entries
<1>4. b.opens # "text" => Entries(b) = Listed(b.configs)
  BY DEF Entries, Listed
<1> QED
  BY <1>1, <1>2, <1>3, <1>4

LEMMA OffersAre ==
    ASSUME NEW b
    PROVE  /\ BlindSpot(b) => Offers(b) = << >>
           /\ ~ BlindSpot(b) => Offers(b) = Where(Entries(b), OfferedAt(Entries(b), b.speaks))
BY DEF Offers, OfferedAt

\* A document of one configuration.
LEMMA ObjectIs ==
    ASSUME NEW b \in Body, WellFormed(b), b.opens = "object"
    PROVE  /\ b.configs[1] \in Config /\ b.configs[1] # Null
           /\ Entries(b) = OutboundsOf(b.configs[1])
<1> DEFINE cs == b.configs
           ss == [i \in DOMAIN cs |-> OutboundsOf(cs[i])]
<1>1. cs \in Seq(Config \cup {Null}) /\ Len(cs) = 1 /\ cs[1] # Null
  BY BodyType DEF WellFormed
<1> HIDE DEF cs
<1>2. DOMAIN cs = 1 .. Len(cs) /\ 1 \in 1 .. Len(cs) /\ \A i \in 1 .. Len(cs) : cs[i] \in Config \cup {Null}
  <2>1. DOMAIN cs = 1 .. Len(cs)
    BY <1>1
  <2>2. 1 \in 1 .. Len(cs)
    BY <1>1
  <2>3. \A i \in 1 .. Len(cs) : cs[i] \in Config \cup {Null}
    BY <1>1
  <2> QED
    BY <2>1, <2>2, <2>3
<1>3. cs[1] \in Config /\ ss[1] = OutboundsOf(cs[1]) /\ Len(ss) = 1
  <2>1. cs[1] \in Config
    BY <1>1, <1>2
  <2>2. ss = [i \in 1 .. 1 |-> OutboundsOf(cs[i])]
    BY <1>1, <1>2
  <2> QED
    BY <2>1, <2>2
<1>4. FlattenSeq(ss) = ss[1]
  <2> HIDE DEF ss
  <2> QED
    BY <1>3, FlattenOne
<1>5. Entries(b) = FlattenSeq(ss)
  BY DEF Entries, cs
<1> QED
  BY <1>1, <1>3, <1>4, <1>5 DEF cs
LEMMA TextAnswers ==
    ASSUME NEW b \in Body, WellFormed(b), b.opens = "text"
    PROVE  Answers(b, Parsed(b))
<1> DEFINE t == Decoded(b)
           L == b.lines
           P == Parsed(b)
<1>1. /\ b.speaks = "uri" /\ b.clash \in BOOLEAN /\ b.wrapped \in BOOLEAN
      /\ L \in Seq(Entry \cup {Null}) /\ Entries(b) = L
      /\ \A i \in DOMAIN L : L[i] # Null => Sayable(L[i], "uri")
  <2>1. Entries(b) = L /\ L \in Seq(Entry \cup {Null})
    BY EntriesType, BodyType
  <2>2. b.speaks = "uri" /\ \A i \in DOMAIN Entries(b) :
            Entries(b)[i] # Null => Sayable(Entries(b)[i], b.speaks)
    BY DEF WellFormed
  <2> QED
    BY <2>1, <2>2, BodyType
<1>2. /\ t.opens = "text" /\ t.clash = b.clash /\ t.lines = L
      /\ t.wrapped = (b.wrapped /\ ~ HasProxyUris(L))
  <2>1. CASE HasProxyUris(L)
    <3>1. t = [b EXCEPT !.wrapped = FALSE]
      BY <2>1 DEF Decoded
    <3> QED
      BY <3>1, <2>1, BodyType
  <2>2. CASE ~ HasProxyUris(L)
    <3>1. t = b
      BY <2>2 DEF Decoded
    <3>2. b.wrapped = (b.wrapped /\ ~ HasProxyUris(L))
      BY <1>1, <2>2
    <3> HIDE DEF t
    <3> QED
      BY <3>1, <3>2
  <2> QED
    BY <2>1, <2>2
<1>3. P = Loaded(DetectSubFormat(t), t)
  BY DEF Parsed
<1>4. BlindSpot(b) <=> b.clash
  BY DEF BlindSpot
<1> HIDE DEF t, P
<1>5. DetectSubFormat(t) = IF t.wrapped THEN "unknown" ELSE IF b.clash THEN "clash_yaml"
                           ELSE IF HasProxyUris(L) THEN "uri_list" ELSE "unknown"
  BY <1>2 DEF DetectSubFormat
<1>6. CASE ~ b.clash /\ HasProxyUris(L)
  <2>1. DetectSubFormat(t) = "uri_list"
    BY <1>2, <1>5, <1>6
  <2>2. P = DedupTags(ParseUriList(L))
    BY <2>1, <1>2, <1>3 DEF Loaded
  <2>3. Offers(b) = Where(L, OfferedAt(L, "uri"))
    BY <1>1, <1>4, <1>6, OffersAre
  <2>4. \A i \in 1 .. Len(L) : L[i] # Null => Sayable(L[i], "uri")
    BY <1>1
  <2> HIDE DEF L
  <2>5. /\ DedupTags(ParseUriList(L)) \in Seq(AnyInfo)
        /\ Fits(Where(L, OfferedAt(L, "uri")), Collection(DedupTags(ParseUriList(L))), "uri")
        /\ Apart(Where(L, OfferedAt(L, "uri")), Collection(DedupTags(ParseUriList(L))), "uri")
    BY <2>4, <1>1, UriFit
  <2>6. Answers(b, P)
    BY <2>2, <2>3, <2>5, <1>1 DEF Answers
  <2> QED
    BY <2>6 DEF P
<1>7. CASE b.clash \/ ~ HasProxyUris(L)
  <2>1. DetectSubFormat(t) \in {"clash_yaml", "unknown"}
    BY <1>2, <1>5, <1>7
  <2>2. P = << >>
    BY <2>1, <1>3 DEF Loaded
  <2>3. Offers(b) = << >>
    <3>1. CASE b.clash
      BY <3>1, <1>4, OffersAre
    <3>2. CASE ~ b.clash
      <4> DEFINE X == OfferedAt(L, "uri")
      <4>1. Offers(b) = Where(L, X)
        BY <1>1, <1>4, <3>2, OffersAre
      <4>2. ASSUME NEW i \in 1 .. Len(L), L[i] # Null, Offered(L[i], "uri")
            PROVE  FALSE
        <5>1. L[i].as \in ProxyUriSchemes
          BY <4>2 DEF Offered, ProxyUriSchemes
        <5>2. i \in DOMAIN L
          BY <1>1
        <5> QED
          BY <5>1, <5>2, <4>2, <3>2, <1>7 DEF HasProxyUris
      <4>3. \A i \in 1 .. Len(L) : i \notin X
        BY <4>2 DEF OfferedAt
      <4> HIDE DEF L, X
      <4>4. Where(L, X) = << >>
        BY <4>3, <1>1, WhereNothing
      <4> QED
        BY <4>1, <4>4
    <3> QED
      BY <3>1, <3>2
  <2>4. P \in Seq(AnyInfo) /\ Collection(P) = << >>
    BY <2>2, NothingCollected
  <2>5. Answers(b, P)
    BY <2>3, <2>4, NothingAnswers
  <2> QED
    BY <2>5 DEF P
<1> QED
  BY <1>1, <1>6, <1>7

LEMMA ObjectAnswers ==
    ASSUME NEW b \in Body, WellFormed(b), b.opens = "object"
    PROVE  Answers(b, Parsed(b))
<1> DEFINE t == Decoded(b)
           c == b.configs[1]
           L == OutboundsOf(c)
           P == Parsed(b)
<1>1. /\ c \in Config /\ c # Null /\ Entries(b) = L
      /\ b.configs \in Seq(Config \cup {Null}) /\ L = Listed(b.configs)
      /\ L \in Seq(Entry \cup {Null})
  <2>1. c \in Config /\ c # Null /\ Entries(b) = L
    BY ObjectIs
  <2>2. Entries(b) = Listed(b.configs) /\ Entries(b) \in Seq(Entry \cup {Null})
    BY EntriesType
  <2>3. b.configs \in Seq(Config \cup {Null})
    BY BodyType
  <2> QED
    BY <2>1, <2>2, <2>3
<1>2. /\ t.opens = "object" /\ t.wrapped = FALSE /\ t.comments = b.comments
      /\ t.configs = b.configs /\ t.speaks = b.speaks
  <2>1. t = [b EXCEPT !.wrapped = FALSE]
    BY DEF Decoded
  <2> QED
    BY <2>1, BodyType
<1>3. b.speaks \in {"singbox", "xray"}
  BY BodyType DEF WellFormed
<1>4. L = IF c.outbounds = Null THEN <<>> ELSE c.outbounds
  <2> HIDE DEF c
  <2> QED
    BY <1>1 DEF OutboundsOf
<1>5. BlindSpot(b) <=>
            \/ b.comments = "comments"
            \/ b.speaks = "xray" /\ b.comments = "slashes"
            \/ /\ b.speaks = "singbox"
               /\ \/ L = <<>> \/ L[1] = Null \/ ~ L[1].addressed
                  \/ \E i \in DOMAIN L : L[i] # Null /\ RaisesInSingbox(L[i])
  <2>1. b.opens # "text" /\ b.opens # "array"
    OBVIOUS
  <2> QED
    BY <2>1, Zenon DEF BlindSpot
<1>6. \A i \in 1 .. Len(L) : L[i] # Null => Sayable(L[i], b.speaks)
  <2>1. \A i \in DOMAIN Entries(b) : Entries(b)[i] # Null => Sayable(Entries(b)[i], b.speaks)
    BY DEF WellFormed
  <2>2. DOMAIN Entries(b) = 1 .. Len(L)
    <3> HIDE DEF L
    <3> QED
      BY <1>1
  <2> HIDE DEF L
  <2> QED
    BY <2>1, <2>2, <1>1
<1>7. P = Loaded(DetectSubFormat(t), t)
  BY DEF Parsed
<1> HIDE DEF t, P
<1>8. DetectSubFormat(t) = IF b.comments = "comments" THEN "unknown" ELSE DetectObject(c, b.speaks)
  BY <1>2 DEF DetectSubFormat
<1>9. LoadString(t) = IF b.comments = "slashes" THEN <<>> ELSE LoadDicts(b.configs, b.speaks)
  BY <1>2 DEF LoadString
<1> HIDE DEF c, L
<1>10. CASE b.comments = "comments"
  <2>1. P = << >>
    BY <1>7, <1>8, <1>10 DEF Loaded
  <2>2. P \in Seq(AnyInfo) /\ Collection(P) = << >>
    BY <2>1, NothingCollected
  <2>3. Offers(b) = << >>
    BY <1>5, <1>10, OffersAre
  <2> QED
    BY <2>2, <2>3, NothingAnswers DEF P
<1>11. CASE b.comments # "comments" /\ b.speaks = "xray"
  <2>1. DetectSubFormat(t) = IF L # << >> \/ c.others THEN "xray_json" ELSE "unknown"
    BY <1>1, <1>4, <1>8, <1>11, NullAssumption DEF DetectObject, IsSingBox
  <2>2. CASE b.comments = "slashes"
    <3>1. P = << >>
      BY <2>1, <2>2, <1>7, <1>9 DEF Loaded
    <3>2. P \in Seq(AnyInfo) /\ Collection(P) = << >>
      BY <3>1, NothingCollected
    <3>3. Offers(b) = << >>
      BY <1>5, <1>11, <2>2, OffersAre
    <3> QED
      BY <3>2, <3>3, NothingAnswers DEF P
  <2>3. CASE b.comments # "slashes"
    <3>1. ~ BlindSpot(b)
      BY <1>5, <1>11, <2>3
    <3>2. Offers(b) = Where(L, OfferedAt(L, "xray"))
      BY <3>1, <1>1, <1>11, OffersAre
    <3>3. CASE L # << >> \/ c.others
      <4>1. P = LoadDicts(b.configs, "xray")
        BY <2>1, <2>3, <3>3, <1>7, <1>9, <1>11 DEF Loaded
      <4>2. /\ LoadDicts(b.configs, "xray") \in Seq(AnyInfo)
            /\ Fits(Where(L, OfferedAt(L, "xray")), Collection(LoadDicts(b.configs, "xray")), "xray")
        BY <1>1, XrayFit
      <4>3. Answers(b, P)
        BY <4>1, <4>2, <3>2, <1>11 DEF Answers
      <4> QED
        BY <4>3 DEF P
    <3>4. CASE ~ (L # << >> \/ c.others)
      <4>1. P = << >>
        BY <2>1, <3>4, <1>7 DEF Loaded
      <4>2. P \in Seq(AnyInfo) /\ Collection(P) = << >>
        BY <4>1, NothingCollected
      <4> DEFINE X == OfferedAt(L, "xray")
      <4>3. \A i \in 1 .. Len(L) : i \notin X
        BY <3>4
      <4> HIDE DEF X
      <4>4. Where(L, X) = << >>
        BY <4>3, <1>1, WhereNothing
      <4>5. Offers(b) = << >>
        BY <4>4, <3>2 DEF X
      <4>6. Answers(b, P)
        BY <4>2, <4>5, NothingAnswers
      <4> QED
        BY <4>6 DEF P
    <3> QED
      BY <3>3, <3>4
  <2> QED
    BY <2>2, <2>3
<1>12. CASE b.comments # "comments" /\ b.speaks = "singbox"
  <2> DEFINE raises == \E i \in DOMAIN L : L[i] # Null /\ RaisesInSingbox(L[i])
             first == L # << >> /\ L[1] # Null /\ L[1].addressed
  <2>0. L[1] # Null /\ L # << >> => L[1].addressed \in BOOLEAN
    <3> SUFFICES ASSUME L[1] # Null, L # << >> PROVE L[1].addressed \in BOOLEAN
      OBVIOUS
    <3>1. L[1] \in Entry \cup {Null}
      BY <1>1
    <3> QED
      BY <3>1 DEF Entry
  <2>1. BlindSpot(b) <=> ~ first \/ raises
    BY <1>5, <1>12, Zenon
  <2>2. DetectSubFormat(t) = IF first THEN "singbox_json"
                             ELSE IF L # << >> \/ c.others THEN "xray_json" ELSE "unknown"
    BY <2>0, <1>1, <1>4, <1>8, <1>12, NullAssumption DEF DetectObject, IsSingBox
  <2>3. CASE ~ first
    <3>1. P \in {<<>>, LoadDicts(b.configs, "singbox")}
      BY <2>2, <2>3, <1>7, <1>9, <1>12 DEF Loaded
    <3>2. P \in Seq(AnyInfo) /\ Collection(P) = << >>
      BY <3>1, <1>1, SingboxAsXray, NothingCollected
    <3>3. Offers(b) = << >>
      BY <2>1, <2>3, OffersAre
    <3>4. Answers(b, P)
      BY <3>2, <3>3, NothingAnswers
    <3> QED
      BY <3>4 DEF P
  <2>4. CASE first /\ raises
    <3>1. c.outbounds = L /\ t.configs[1] = c
      BY <2>4, <1>2, <1>4 DEF c
    <3>2. P = << >>
      BY <3>1, <2>2, <2>4, <1>7 DEF Loaded
    <3>3. P \in Seq(AnyInfo) /\ Collection(P) = << >>
      BY <3>2, NothingCollected
    <3>4. Offers(b) = << >>
      BY <2>1, <2>4, OffersAre
    <3>5. Answers(b, P)
      BY <3>3, <3>4, NothingAnswers
    <3> QED
      BY <3>5 DEF P
  <2>5. CASE first /\ ~ raises
    <3>1. c.outbounds = L /\ t.configs[1] = c
      BY <2>5, <1>2, <1>4 DEF c
    <3>2. P = DedupTags(ParseSingboxJson(L))
      BY <3>1, <2>2, <2>5, <1>7 DEF Loaded
    <3>3. Offers(b) = Where(L, OfferedAt(L, "singbox"))
      BY <2>1, <2>5, <1>1, <1>12, OffersAre
    <3>4. /\ DedupTags(ParseSingboxJson(L)) \in Seq(AnyInfo)
          /\ Fits(Where(L, OfferedAt(L, "singbox")),
                  Collection(DedupTags(ParseSingboxJson(L))), "singbox")
          /\ Apart(Where(L, OfferedAt(L, "singbox")),
                   Collection(DedupTags(ParseSingboxJson(L))), "singbox")
      BY <2>5, <1>1, <1>6, <1>12, SingboxFit
    <3>5. Answers(b, P)
      BY <3>2, <3>3, <3>4, <1>12 DEF Answers
    <3> QED
      BY <3>5 DEF P
  <2> QED
    BY <2>3, <2>4, <2>5
<1> QED
  BY <1>3, <1>10, <1>11, <1>12

LEMMA ArrayAnswers ==
    ASSUME NEW b \in Body, WellFormed(b), b.opens = "array"
    PROVE  Answers(b, Parsed(b))
<1> DEFINE t == Decoded(b)
           cs == b.configs
           P == Parsed(b)
           keys == cs # << >> /\ cs[1] # Null /\ (cs[1].outbounds # Null \/ cs[1].others)
<1>1. /\ b.speaks \in {"singbox", "xray"} /\ b.lines = << >>
      /\ cs \in Seq(Config \cup {Null})
      /\ Entries(b) = Listed(cs)
  BY BodyType, EntriesType DEF WellFormed
<1>2. t = b
  <2>1. ~ HasProxyUris(b.lines)
    BY <1>1 DEF HasProxyUris
  <2> QED
    BY <2>1 DEF Decoded
<1>3. BlindSpot(b) <=>
          b.wrapped \/ b.comments = "comments" \/ b.speaks = "singbox" \/ ~ keys
  <2>1. b.opens # "text"
    OBVIOUS
  <2> QED
    BY <2>1, Zenon DEF BlindSpot
<1>4. P = Loaded(DetectSubFormat(b), b)
  BY <1>2 DEF Parsed
<1> HIDE DEF t, P
<1>5. DetectSubFormat(b) = IF b.wrapped \/ b.comments = "comments" \/ ~ keys
                           THEN "unknown" ELSE "xray_json_array"
  BY DEF DetectSubFormat, DetectArray
<1> HIDE DEF cs, keys
<1>6. CASE BlindSpot(b)
  <2>1. P \in {<<>>, LoadDicts(cs, "singbox")}
    BY <1>1, <1>3, <1>4, <1>5, <1>6 DEF Loaded, cs
  <2>2. P \in Seq(AnyInfo) /\ Collection(P) = << >>
    BY <2>1, <1>1, SingboxAsXray, NothingCollected
  <2>3. Offers(b) = << >>
    BY <1>6, OffersAre
  <2>4. Answers(b, P)
    BY <2>2, <2>3, NothingAnswers
  <2> QED
    BY <2>4 DEF P
<1>7. CASE ~ BlindSpot(b)
  <2>1. b.speaks = "xray" /\ P = LoadDicts(cs, "xray")
    BY <1>1, <1>3, <1>4, <1>5, <1>7 DEF Loaded, cs
  <2>2. Offers(b) = Where(Entries(b), OfferedAt(Entries(b), "xray"))
    BY <2>1, <1>7, OffersAre
  <2>3. /\ LoadDicts(cs, "xray") \in Seq(AnyInfo)
        /\ Fits(Where(Entries(b), OfferedAt(Entries(b), "xray")),
                Collection(LoadDicts(cs, "xray")), "xray")
    BY <1>1, XrayFit
  <2>4. Answers(b, P)
    BY <2>1, <2>2, <2>3 DEF Answers
  <2> QED
    BY <2>4 DEF P
<1> QED
  BY <1>6, <1>7

\* Every answer is stored as the servers it offers.
LEMMA BodyAnswers ==
    ASSUME NEW b \in Bodies
    PROVE  Answers(b, Parsed(b))
<1>1. b \in Body /\ WellFormed(b)
  BY BodiesAssumption
<1>2. b.opens \in {"object", "array", "text"}
  BY <1>1, BodyType
<1> QED
  BY <1>1, <1>2, TextAnswers, ObjectAnswers, ArrayAnswers
-----------------------------------------------------------------------------
\* The stages.

\* Each stage leaves what the operators of the stages before it make of the body.
IInv ==
    /\ body \in Bodies /\ pc \in Stages
    /\ text = IF pc = "decode" THEN body ELSE Decoded(body)
    /\ fmt = IF pc \in {"decode", "detect"} THEN "unknown" ELSE DetectSubFormat(text)
    /\ parsed = IF pc \in {"collect", "done"} THEN Parsed(body) ELSE <<>>
    /\ stored = IF pc = "done"
                THEN [i \in DOMAIN Collection(parsed) |-> AsDict(Collection(parsed)[i])]
                ELSE <<>>

LEMMA FormatType ==
    ASSUME NEW t
    PROVE  DetectSubFormat(t) \in Formats
BY DEF DetectSubFormat, DetectObject, DetectArray, Formats

LEMMA LoadIs ==
    ASSUME Load, fmt = DetectSubFormat(text)
    PROVE  parsed' = Loaded(fmt, text)
<1>1. fmt \in Formats
  BY FormatType
<1>2. CASE fmt = "singbox_json"
  BY <1>2 DEF Load, Loaded
<1>3. CASE fmt # "singbox_json"
  BY <1>1, <1>3 DEF Load, Loaded, Formats
<1> QED
  BY <1>2, <1>3

LEMMA Invariant == Spec => []IInv
<1>1. Init => IInv
  BY DEF Init, IInv, Stages
<1>2. IInv /\ [Next]_vars => IInv'
  <2> SUFFICES ASSUME IInv, [Next]_vars PROVE IInv'
    OBVIOUS
  <2>1. CASE Decode
    BY <2>1 DEF Decode, IInv, Stages
  <2>2. CASE Detect
    BY <2>2 DEF Detect, IInv, Stages
  <2>3. CASE Load
    <3>1. pc = "load" /\ pc' = "collect" /\ UNCHANGED <<body, text, fmt, stored>>
      BY <2>3 DEF Load
    <3>2. /\ body \in Bodies /\ text = Decoded(body) /\ fmt = DetectSubFormat(text)
          /\ stored = << >>
      BY <3>1 DEF IInv
    <3>3. parsed' = Loaded(fmt, text)
      BY <2>3, <3>2, LoadIs
    <3>4. parsed' = Parsed(body)
      BY <3>2, <3>3 DEF Parsed
    <3> QED
      BY <3>1, <3>2, <3>4 DEF IInv, Stages
  <2>4. CASE Collect
    BY <2>4 DEF Collect, IInv, Stages
  <2>5. CASE UNCHANGED vars
    BY <2>5 DEF vars, IInv
  <2> QED
    BY <2>1, <2>2, <2>3, <2>4, <2>5 DEF Next
<1> QED
  BY <1>1, <1>2, PTL DEF Spec

\* What is stored in the end.
LEMMA StoredIs ==
    ASSUME IInv, pc = "done", NEW C, C = Collection(Parsed(body))
    PROVE  /\ Fits(Offers(body), C, body.speaks)
           /\ body.speaks # "xray" => Apart(Offers(body), C, body.speaks)
           /\ stored = [i \in 1 .. Len(C) |-> AsDict(C[i])]
           /\ stored \in Seq(Dict) /\ Len(stored) = Len(C) /\ DOMAIN stored = 1 .. Len(C)
           /\ \A i \in 1 .. Len(C) : stored[i] = AsDict(C[i])
<1>1. Answers(body, Parsed(body))
  BY BodyAnswers DEF IInv
<1>2. /\ Fits(Offers(body), C, body.speaks)
      /\ body.speaks # "xray" => Apart(Offers(body), C, body.speaks)
  BY <1>1 DEF Answers
<1>3. C \in Seq(AnyInfo)
  BY <1>2 DEF Fits
<1>4. DOMAIN C = 1 .. Len(C) /\ Len(C) \in Nat /\ \A i \in 1 .. Len(C) : C[i] \in AnyInfo
  BY <1>3
<1>5. stored = [i \in 1 .. Len(C) |-> AsDict(C[i])]
  <2>1. parsed = Parsed(body)
    BY DEF IInv
  <2>2. stored = [i \in DOMAIN C |-> AsDict(C[i])]
    BY <2>1 DEF IInv
  <2> QED
    BY <2>2, <1>4
<1>6. \A i \in 1 .. Len(C) : stored[i] = AsDict(C[i]) /\ stored[i] \in Dict
  <2>1. \A i \in 1 .. Len(C) : AsDict(C[i]) \in Dict
    BY <1>4, AsDictType DEF AnyInfo
  <2> QED
    BY <2>1, <1>5
<1>7. stored = [i \in 1 .. Len(C) |-> stored[i]]
  BY <1>5
<1>8. stored \in Seq(Dict) /\ Len(stored) = Len(C) /\ DOMAIN stored = 1 .. Len(C)
  BY <1>4, <1>6, <1>7, SeqOfValues
<1> QED
  BY <1>2, <1>5, <1>6, <1>8

-----------------------------------------------------------------------------
\* What the parser keeps between the stages has its type, and what it hands to
\* the database is a list of dicts.
THEOREM TypeOKHolds == Spec => []TypeOK
<1>1. IInv => TypeOK
  <2> SUFFICES ASSUME IInv PROVE TypeOK
    OBVIOUS
  <2>1. pc \in Stages /\ body \in Bodies /\ body \in Body
    BY BodiesAssumption DEF IInv
  <2>2. fmt \in Formats
    BY FormatType DEF IInv, Formats
  <2>3. text \in {body, [body EXCEPT !.wrapped = FALSE]}
    BY DEF IInv, Decoded
  <2>4. Parsed(body) \in Seq(OutboundInfo \cup XrayOutboundInfo)
    BY <2>1, BodyAnswers DEF Answers, AnyInfo
  <2>5. parsed \in Seq(OutboundInfo \cup XrayOutboundInfo)
    BY <2>4 DEF IInv
  <2>6. stored \in Seq(Dict)
    <3>1. CASE pc = "done"
      BY <3>1, StoredIs
    <3>2. CASE pc # "done"
      BY <3>2 DEF IInv
    <3> QED
      BY <3>1, <3>2
  <2> QED
    BY <2>1, <2>2, <2>3, <2>5, <2>6 DEF TypeOK
<1> QED
  BY <1>1, Invariant, PTL

\* Of every answer exactly the servers on offer are stored, each once and in
\* their order; of an answer in a blind spot nothing is.
THEOREM EveryOfferIsStoredHolds == Spec => []EveryOfferIsStored
<1>1. IInv => EveryOfferIsStored
  <2> SUFFICES ASSUME IInv, pc = "done"
               PROVE  [i \in DOMAIN stored |-> stored[i].id]
                          = [i \in DOMAIN Offers(body) |-> Offers(body)[i].id]
    BY DEF EveryOfferIsStored
  <2> DEFINE C == Collection(Parsed(body))
             O == Offers(body)
  <2>1. /\ Fits(O, C, body.speaks) /\ DOMAIN stored = 1 .. Len(C)
        /\ \A i \in 1 .. Len(C) : stored[i] = AsDict(C[i])
    BY StoredIs
  <2> HIDE DEF C, O
  <2>2. DOMAIN O = 1 .. Len(C) /\ \A i \in 1 .. Len(C) : AsDict(C[i]).id = O[i].id
    BY <2>1 DEF Fits
  <2>3. [i \in DOMAIN stored |-> stored[i].id] = [i \in DOMAIN O |-> O[i].id]
    BY <2>1, <2>2
  <2> QED
    BY <2>3 DEF O
<1> QED
  BY <1>1, Invariant, PTL

\* Apart from the known losses every stored outbound is the server that its
\* entry describes.
THEOREM StoredAsMeantHolds == Spec => []StoredAsMeant
<1>1. IInv => StoredAsMeant
  <2> SUFFICES ASSUME IInv, pc = "done", NEW i \in DOMAIN stored \cap DOMAIN Offers(body)
               PROVE  KnownLoss(Offers(body)[i], body.speaks) \/ Meant(stored[i], Offers(body)[i])
    BY DEF StoredAsMeant
  <2> DEFINE C == Collection(Parsed(body))
             O == Offers(body)
  <2>1. /\ Fits(O, C, body.speaks) /\ DOMAIN stored = 1 .. Len(C)
        /\ \A n \in 1 .. Len(C) : stored[n] = AsDict(C[n])
    BY StoredIs
  <2>2. i \in 1 .. Len(C)
    BY <2>1
  <2> HIDE DEF C, O
  <2>3. KnownLoss(O[i], body.speaks) \/ Meant(stored[i], O[i])
    BY <2>1, <2>2 DEF Fits
  <2> QED
    BY <2>3 DEF O
<1> QED
  BY <1>1, Invariant, PTL

\* Renaming duplicates gives every server of a URI list or a sing-box document
\* a tag of its own, unless a name looks like a renamed one.
THEOREM TagsApartHolds == Spec => []TagsApart
<1>1. IInv => TagsApart
  <2> DEFINE C == Collection(Parsed(body))
             O == Offers(body)
             names == {NameOf(O[i], body.speaks) : i \in DOMAIN O}
  <2> SUFFICES ASSUME IInv, pc = "done", body.speaks # "xray",
                      ~ (\E t, u \in names : LooksNumbered(t, u)),
                      NEW i \in DOMAIN stored, NEW j \in DOMAIN stored,
                      stored[i].tag = stored[j].tag
               PROVE  i = j
    BY Zenon DEF TagsApart, LooksNumbered
  <2>1. /\ Fits(O, C, body.speaks) /\ Apart(O, C, body.speaks)
        /\ DOMAIN stored = 1 .. Len(C)
        /\ \A n \in 1 .. Len(C) : stored[n] = AsDict(C[n])
    BY StoredIs
  <2>2. i \in 1 .. Len(C) /\ j \in 1 .. Len(C)
    BY <2>1
  <2> HIDE DEF C, O
  <2>3. DOMAIN O = 1 .. Len(O)
    BY <2>1 DEF Fits
  <2>4. \A x \in 1 .. Len(O) : NameOf(O[x], body.speaks) \in names
    BY <2>3
  <2> HIDE DEF names
  <2>5. \A m, n \in 1 .. Len(C) : AsDict(C[m]).tag = AsDict(C[n]).tag => m = n
    BY <2>1, <2>4 DEF Apart
  <2> QED
    BY <2>1, <2>2, <2>5
<1> QED
  BY <1>1, Invariant, PTL

==============================================================================
