------------------------- MODULE SubscriptionParser -------------------------
(***************************************************************************)
(* From the body of a provider's answer to the outbounds stored in         *)
(* outbounds_json: _parse_raw_content and the parsers it calls.  The body  *)
(* is decoded, its format detected, each entry parsed by the parser of its *)
(* scheme or type, duplicate tags renamed and the result rebuilt as xray   *)
(* outbounds.                                                              *)
(*                                                                         *)
(* A body says what the provider published (format, base64 or not, entries *)
(* in order); the operators look only at what the code looks at.  An entry *)
(* is identified by its id, which stands for its address and credentials;  *)
(* ports, paths, server names and keys are carried along with the stream   *)
(* attribute that holds them, or lost with it.                             *)
(***************************************************************************)
EXTENDS Lists, FiniteSets

CONSTANTS
    Bodies,    \* the answers considered
    Names,     \* names that a provider gives to its servers
    Null       \* a missing tag or key, or a line or entry of the wrong type

VARIABLES
    pc,        \* the stage that is next
    body,      \* the provider's answer
    text,      \* the same as the parser sees it
    fmt,       \* the detected format
    parsed,    \* parser.outbounds
    stored     \* the list of dicts returned, written to outbounds_json

vars == <<pc, body, text, fmt, parsed, stored>>

Stages == {"decode", "detect", "load", "collect", "done"}

Formats == {"xray_json", "singbox_json", "xray_json_array", "clash_yaml",
            "uri_list", "unknown"}

ProxyUriSchemes == {"vmess", "vless", "trojan", "ss", "shadowsocks", "hy2",
                    "hysteria2", "hysteria", "wireguard", "wg", "socks",
                    "socks5"}

Proxies == {"vless", "vmess", "trojan", "shadowsocks", "socks", "http",
            "hysteria2", "hysteria", "wireguard"}

Protocols == Proxies \cup {"freedom", "blackhole", "loopback", "dns", "unknown"}

\* What the code tells apart of a scheme, a "type" or a "protocol".
Kinds == ProxyUriSchemes \cup Protocols \cup {"h2", "direct", "block", "other"}

Networks == {"tcp", "udp", "ws", "websocket", "http", "h2", "grpc", "gun",
             "xhttp", "splithttp", "quic", "kcp", "httpupgrade"}

Securities == {"none", "tls", "reality", "malformed"}

\* A name with the numbers appended to it.
Tag == [name: Names \cup Kinds \cup
              {"vless-host", "trojan-host", "ss-host", "hy2-host",
               "hysteria-host", "outbound"},
        numbers: Seq(Nat)]

\* A line of a URI list or an element of "outbounds": as is its scheme, "type"
\* or "protocol".  userinfo is how an ss:// line writes its user info.  The form
\* of a line is odd if its host and port are no host:port (the ordinary
\* host:443/ before a query is not, nor is host:443,5000-6000), or if the payload
\* of a vmess:// line is no JSON object in base64.  extra is the option of its
\* protocol (flow, aid, plugin, obfs); insecure asks to accept any certificate.
Entry == [id: Nat, as: Kinds, tag: Tag \cup {Null}, addressed: BOOLEAN,
          userinfo: {"sip002", "legacy", "plain", "plain-odd"},
          form: {"usual", "odd"}, net: Networks, sec: Securities,
          extra: BOOLEAN, insecure: BOOLEAN]

Config == [outbounds: Seq(Entry \cup {Null}) \cup {Null},
           others: BOOLEAN]       \* has "inbounds" or "routing"

Body == [speaks: {"uri", "singbox", "xray"},
         wrapped: BOOLEAN, opens: {"object", "array", "text"},
         comments: {"none", "comments", "slashes"},
         configs: Seq(Config \cup {Null}), lines: Seq(Entry \cup {Null}),
         clash: BOOLEAN]

OutboundsOf(c) == IF c = Null \/ c.outbounds = Null THEN <<>> ELSE c.outbounds

\* The lines or outbounds of an answer, in order.
Entries(b) ==
    IF b.opens = "text" THEN b.lines
    ELSE FlattenSeq([i \in DOMAIN b.configs |-> OutboundsOf(b.configs[i])])

\* What an entry can say: certificates belong to TLS, an ss:// line has no
\* transport or security of its own, Hysteria 2 is always TLS, and sing-box has
\* fewer transports.
Sayable(e, dialect) ==
    /\ e.insecure => e.sec = "tls"
    /\ dialect = "uri" => /\ e.sec # "malformed"
                          /\ e.as \in {"ss", "shadowsocks"} =>
                                e.net = "tcp" /\ e.sec = "none"
                          /\ e.as \in {"hy2", "hysteria2"} =>
                                e.net = "tcp" /\ e.sec = "tls"
    /\ dialect = "singbox" =>
          e.net \in {"tcp", "ws", "websocket", "http", "grpc", "httpupgrade",
                     "xhttp", "quic"}

WellFormed(b) ==
    /\ b.opens = "text" => b.speaks = "uri" /\ b.configs = <<>>
    /\ b.opens # "text" => b.speaks # "uri" /\ b.lines = <<>> /\ ~b.clash
    /\ b.opens = "object" => Len(b.configs) = 1 /\ b.configs[1] # Null
    /\ \A i \in DOMAIN Entries(b) :
          Entries(b)[i] # Null => Sayable(Entries(b)[i], b.speaks)

ASSUME BodiesAssumption == \A b \in Bodies : b \in Body /\ WellFormed(b)

Lookup(table, key, default) ==
    IF key \in DOMAIN table THEN table[key] ELSE default

\* The elements of s that are not Null.
Dicts(s) == Where(s, {i \in DOMAIN s : s[i] # Null})

-----------------------------------------------------------------------------
\* Format detection.

HasProxyUris(lines) ==
    \E i \in DOMAIN lines : lines[i] # Null /\ lines[i].as \in ProxyUriSchemes

\* What the base64 branch makes of the answer: only a JSON object or a URI
\* list is accepted from inside base64.
Decoded(b) ==
    IF b.opens = "object" \/ HasProxyUris(b.lines)
    THEN [b EXCEPT !.wrapped = FALSE] ELSE b

\* "server" and "type" in the first outbound, and no "protocol".
IsSingBox(first, speaks) == first # Null /\ speaks = "singbox" /\ first.addressed

DetectObject(c, speaks) ==
    IF c.outbounds \notin {Null, <<>>}
    THEN IF IsSingBox(c.outbounds[1], speaks) THEN "singbox_json" ELSE "xray_json"
    ELSE IF c.others THEN "xray_json" ELSE "unknown"

DetectArray(configs) ==
    IF configs # <<>> /\ configs[1] # Null
       /\ (configs[1].outbounds # Null \/ configs[1].others)
    THEN "xray_json_array" ELSE "unknown"

\* json.loads refuses comments; what no branch recognises is unknown.
DetectSubFormat(t) ==
    IF t.wrapped \/ (t.opens # "text" /\ t.comments = "comments") THEN "unknown"
    ELSE CASE t.opens = "object" -> DetectObject(t.configs[1], t.speaks)
           [] t.opens = "array" -> DetectArray(t.configs)
           [] OTHER -> IF t.clash THEN "clash_yaml"
                       ELSE IF HasProxyUris(t.lines) THEN "uri_list" ELSE "unknown"

-----------------------------------------------------------------------------
\* URI lines.  Every parser returns an OutboundInfo or None.

NetAliases == [websocket |-> "ws", h2 |-> "http", gun |-> "grpc",
               splithttp |-> "xhttp"]

\* The attributes of StreamInfo that a stream of this security and network
\* fills in, given the table of transports the parser knows.
Filled(sec, securities, net, transports) ==
    ({sec} \cap securities) \cup {transports[n] : n \in {net} \cap DOMAIN transports}

\* A faulty variant: the table of aliases is not consulted.
StreamFromUriParamsVerbatim(e) ==
    [network |-> e.net, security |-> e.sec,
     filled |-> Filled(e.sec, {"tls", "reality"}, e.net,
                       [ws |-> "ws", http |-> "http", grpc |-> "grpc",
                        xhttp |-> "xhttp"])]

StreamFromUriParams(e) ==
    LET net == Lookup(NetAliases, e.net, e.net)
    IN  [network |-> net, security |-> e.sec,
         filled |-> Filled(e.sec, {"tls", "reality"}, net,
                           [ws |-> "ws", http |-> "http", h2 |-> "http",
                            grpc |-> "grpc", xhttp |-> "xhttp",
                            splithttp |-> "xhttp"])]

\* The key that asks to accept any certificate.
Insecure(e) == IF e.insecure THEN {"allowInsecure"} ELSE {}

\* server tells whether the address and the credentials are the entry's own.
Info(e, protocol, default, server, extra, stream) ==
    [id |-> e.id, tag |-> IF e.tag = Null THEN default ELSE e.tag,
     protocol |-> protocol, addressed |-> e.addressed, server |-> server,
     extra |-> extra, stream |-> stream, raw |-> Null]

\* The name of a scheme or type, and such a name with the address.
Plain(name) == [name |-> name, numbers |-> <<>>]
ByHost(name, e) == [name |-> name, numbers |-> <<e.id>>]

\* Text that does not end in a colon and a number is the address as a whole, and
\* the port is 0.
ParseHostport(e) == IF e.form = "odd" THEN "garbled" ELSE "own"

\* No address: an entry without servers.  No payload for xhttp or REALITY.
ParseVmessUri(e) ==
    LET net == Lookup(NetAliases, e.net, e.net)
    IN  IF e.form = "odd" THEN Null
        ELSE Info(e, "vmess", Plain("vmess"), "own", e.extra,
             [network |-> net, security |-> e.sec,
              filled |-> Filled(e.sec, {"tls"}, net,
                                [ws |-> "ws", http |-> "http", h2 |-> "http",
                                 grpc |-> "grpc"])])

ParseVlessUri(e) ==
    IF ~e.addressed THEN Null
    ELSE Info(e, "vless", ByHost("vless-host", e), ParseHostport(e), e.extra,
              StreamFromUriParams(e))

ParseTrojanUri(e) ==
    IF ~e.addressed THEN Null
    ELSE Info(e, "trojan", ByHost("trojan-host", e), ParseHostport(e), FALSE,
              StreamFromUriParams(e))

\* The user info is decoded as base64 whenever that succeeds, which for plain
\* method:password it nearly always does (not for an odd length), and the
\* length of "ss://" is cut off whatever the scheme.
ParseSsUri(e) ==
    LET garbled == e.as = "shadowsocks" \/ e.userinfo = "plain"
    IN  IF ~e.addressed THEN Null
        ELSE Info(e, "shadowsocks", ByHost("ss-host", e),
                  IF garbled THEN "garbled" ELSE ParseHostport(e), FALSE,
                  [network |-> "tcp", security |-> "none", filled |-> {}])

ParseHy2Uri(e) ==
    IF ~e.addressed THEN Null
    ELSE Info(e, "hysteria2", ByHost("hy2-host", e), ParseHostport(e), e.extra,
              [network |-> "tcp", security |-> "tls",
               filled |-> {"tls"} \cup Insecure(e)])

\* Credentials are query parameters; the rest of the line is the address.
ParseHysteria1Uri(e) ==
    Info([e EXCEPT !.addressed = TRUE], "hysteria", ByHost("hysteria-host", e),
         ParseHostport(e), e.extra,
         [network |-> "udp", security |-> "tls", filled |-> {"tls"}])

ParseUri(e) ==
    CASE e.as = "vmess" -> ParseVmessUri(e)
      [] e.as = "vless" -> ParseVlessUri(e)
      [] e.as = "trojan" -> ParseTrojanUri(e)
      [] e.as \in {"ss", "shadowsocks"} -> ParseSsUri(e)
      [] e.as \in {"hy2", "hysteria2"} -> ParseHy2Uri(e)
      [] e.as = "hysteria" -> ParseHysteria1Uri(e)
      [] OTHER -> Null

UriResults(lines) ==
    [i \in DOMAIN lines |-> IF lines[i] = Null THEN Null ELSE ParseUri(lines[i])]

\* A faulty variant: one line that cannot be parsed ends the list.
ParseUriListUntilError(lines) ==
    LET results == UriResults(lines)
    IN  Where(results, {i \in DOMAIN results : \A j \in 1..i : results[j] # Null})

ParseUriList(lines) == Dicts(UriResults(lines))

-----------------------------------------------------------------------------
\* Sing-box documents.

SingboxProtocols ==
    [vless |-> "vless", vmess |-> "vmess", trojan |-> "trojan",
     shadowsocks |-> "shadowsocks", ss |-> "shadowsocks",
     hysteria2 |-> "hysteria2", hy2 |-> "hysteria2", hysteria |-> "hysteria",
     wireguard |-> "wireguard", socks |-> "socks", http |-> "http",
     direct |-> "freedom", block |-> "blackhole", dns |-> "dns"]

SingboxStream(e) ==
    LET net == Lookup([websocket |-> "ws", http |-> "h2"], e.net, e.net)
    IN  [network |-> net, security |-> e.sec,
         filled |-> Filled(e.sec, {"tls", "reality"}, net,
                           [ws |-> "ws", grpc |-> "grpc", h2 |-> "http",
                            http |-> "http", xhttp |-> "xhttp",
                            httpupgrade |-> "xhttp"])]

\* alter_id, obfs and plugin are not read; flow is.
SingboxOutboundToInfo(e) ==
    IF e.as \notin DOMAIN SingboxProtocols THEN Null
    ELSE Info(e, SingboxProtocols[e.as], Plain(e.as), "own",
              e.extra /\ e.as = "vless",
              IF e.as = "wireguard"
              THEN [network |-> "udp", security |-> "none", filled |-> {}]
              ELSE SingboxStream(e))

\* A "tls" that is not an object raises out of the whole document.
RaisesInSingbox(e) ==
    /\ e.as \in DOMAIN SingboxProtocols \ {"wireguard"}
    /\ e.sec = "malformed"

SingboxResults(list) ==
    [i \in DOMAIN list |-> IF list[i] = Null THEN Null ELSE SingboxOutboundToInfo(list[i])]

ParseSingboxJson(list) ==
    LET infos == SingboxResults(list)
    IN  Where(infos, {i \in DOMAIN infos : infos[i] # Null /\ infos[i].protocol \in Proxies})

\* f"{tag}-{n}".
Numbered(tag, n) == [tag EXCEPT !.numbers = Append(@, n)]

\* How many outbounds before i have its tag.
Earlier(infos, i) == Cardinality({j \in 1..(i - 1) : infos[j].tag = infos[i].tag})

\* A faulty variant: seen[tag] is not advanced.
DedupTagsOnce(infos) ==
    [i \in DOMAIN infos |->
        IF Earlier(infos, i) = 0 THEN infos[i]
        ELSE [infos[i] EXCEPT !.tag = Numbered(@, 1)]]

\* seen counts the tags as they were before renaming.
DedupTags(infos) ==
    [i \in DOMAIN infos |->
        IF Earlier(infos, i) = 0 THEN infos[i]
        ELSE [infos[i] EXCEPT !.tag = Numbered(@, Earlier(infos, i))]]

-----------------------------------------------------------------------------
\* Xray documents.  Only raw_outbound reaches outbounds_json.

\* The settings that an entry's network and security need.
Needs(e) == ({e.net, e.sec} \ {"tcp", "none"}) \cup Insecure(e)

RawOutbound(e) ==
    [id |-> e.id, tag |-> e.tag, protocol |-> e.as, addressed |-> e.addressed,
     server |-> "own", extra |-> e.extra, network |-> e.net, security |-> e.sec,
     settings |-> Needs(e)]

ProtocolParse(s) ==
    LET p == Lookup([ss |-> "shadowsocks", hy2 |-> "hysteria2",
                     wg |-> "wireguard", h2 |-> "http"], s, s)
    IN  IF p \in Protocols THEN p ELSE "unknown"

\* A sing-box entry has no "protocol".
ParseOutbound(e, speaks, index) ==
    [id |-> e.id,
     tag |-> IF e.tag = Null THEN [name |-> "outbound", numbers |-> <<index>>] ELSE e.tag,
     protocol |-> IF speaks = "xray" THEN ProtocolParse(e.as) ELSE "unknown",
     raw |-> RawOutbound(e)]

ParseTopLevel(c, speaks) ==
    [i \in DOMAIN OutboundsOf(c) |->
        IF OutboundsOf(c)[i] = Null THEN Null
        ELSE ParseOutbound(OutboundsOf(c)[i], speaks, i - 1)]

LoadDicts(configs, speaks) ==
    Dicts(FlattenSeq([i \in DOMAIN configs |-> ParseTopLevel(configs[i], speaks)]))

\* Removing comments cuts a string that contains //, and JSON with it.
LoadString(t) ==
    IF t.comments = "slashes" THEN <<>> ELSE LoadDicts(t.configs, t.speaks)

-----------------------------------------------------------------------------
\* The stored outbounds.

\* The attribute in which a network has its payload.
Payload(net) ==
    Lookup([ws |-> "ws", http |-> "http", h2 |-> "http", grpc |-> "grpc",
            xhttp |-> "xhttp", splithttp |-> "xhttp", tcp |-> "tcp"], net, "none")

\* What _outbound_info_to_xray_dict writes of a stream: the payload of TLS or
\* REALITY, key by key and without allowInsecure, and of the networks it knows.
StreamSettings(s) == s.filled \cap {s.security, Payload(s.network)}

Rebuilt == {"vless", "vmess", "trojan", "shadowsocks", "hysteria2"}

\* Other protocols keep raw_settings, which only the JSON loader fills.  The
\* users are written inside the servers.
OutboundInfoToXrayDict(info) ==
    LET served == info.addressed /\ info.protocol \in Rebuilt
    IN  [id |-> info.id, tag |-> info.tag, protocol |-> info.protocol,
         addressed |-> served,
         server |-> IF served THEN info.server ELSE "lost",
         extra |-> served /\ info.extra /\ info.protocol \in {"vless", "vmess"},
         network |-> info.stream.network, security |-> info.stream.security,
         settings |-> StreamSettings(info.stream)]

\* A faulty variant: what the URI and sing-box parsers return is stored as it is.
AsParsed(info) ==
    IF info.raw # Null THEN info.raw ELSE info

AsDict(info) ==
    IF info.raw # Null THEN info.raw ELSE OutboundInfoToXrayDict(info)

Collection(infos) == Where(infos, {i \in DOMAIN infos : infos[i].protocol \in Proxies})

\* The types of the parsers' results and of the outbounds: a dict, an
\* OutboundInfo of a URI or a sing-box outbound, one of an xray outbound.
Settings == Networks \cup Securities \cup {"allowInsecure"}

Dict == [id: Nat, tag: Tag \cup {Null}, protocol: Kinds, addressed: BOOLEAN,
         server: {"own", "garbled", "lost"}, extra: BOOLEAN, network: Networks,
         security: Securities, settings: SUBSET Settings]

StreamInfo == [network: Networks, security: Securities, filled: SUBSET Settings]

OutboundInfo ==
    [id: Nat, tag: Tag, protocol: Protocols, addressed: BOOLEAN,
     server: {"own", "garbled"}, extra: BOOLEAN, stream: StreamInfo, raw: {Null}]

XrayOutboundInfo == [id: Nat, tag: Tag, protocol: Protocols, raw: Dict]

ASSUME NullAssumption ==
    Null \notin Tag \cup Entry \cup Config \cup Dict \cup OutboundInfo
                \cup XrayOutboundInfo \cup {<<>>}

-----------------------------------------------------------------------------
\* _parse_raw_content.

Init ==
    /\ pc = "decode" /\ body \in Bodies /\ text = body
    /\ fmt = "unknown" /\ parsed = <<>> /\ stored = <<>>

Decode ==
    /\ pc = "decode" /\ pc' = "detect"
    /\ text' = Decoded(text)
    /\ UNCHANGED <<body, fmt, parsed, stored>>

Detect ==
    /\ pc = "detect" /\ pc' = "load"
    /\ fmt' = DetectSubFormat(text)
    /\ UNCHANGED <<body, text, parsed, stored>>

Load ==
    /\ pc = "load" /\ pc' = "collect"
    /\ \/ fmt = "xray_json" /\ parsed' = LoadString(text)
       \/ /\ fmt = "singbox_json"
          /\ LET list == text.configs[1].outbounds
                 raises == \E i \in DOMAIN list :
                     list[i] # Null /\ RaisesInSingbox(list[i])
             IN  parsed' = IF raises THEN <<>> ELSE DedupTags(ParseSingboxJson(list))
       \/ fmt = "uri_list" /\ parsed' = DedupTags(ParseUriList(text.lines))
       \/ fmt = "xray_json_array" /\ parsed' = LoadDicts(text.configs, text.speaks)
       \/ fmt \in {"clash_yaml", "unknown"} /\ parsed' = <<>>
    /\ UNCHANGED <<body, text, fmt, stored>>

Collect ==
    /\ pc = "collect" /\ pc' = "done"
    /\ stored' = [i \in DOMAIN Collection(parsed) |-> AsDict(Collection(parsed)[i])]
    /\ UNCHANGED <<body, text, fmt, parsed>>

Next == Decode \/ Detect \/ Load \/ Collect

Spec == Init /\ [][Next]_vars

-----------------------------------------------------------------------------
\* Properties.

\* Type correctness, with the shape of what is handed to the database.
TypeOK ==
    /\ pc \in Stages /\ body \in Body /\ fmt \in Formats
    /\ text \in {body, [body EXCEPT !.wrapped = FALSE]}
    /\ parsed \in Seq(OutboundInfo \cup XrayOutboundInfo)
    /\ stored \in Seq(Dict)

\* Different spellings of one protocol or network.
Spellings ==
    {{"ss", "shadowsocks"}, {"hy2", "hysteria2"}, {"wg", "wireguard"},
     {"ws", "websocket"}, {"http", "h2"}, {"grpc", "gun"},
     {"xhttp", "splithttp"}}

Same(a, b) == a = b \/ {a, b} \in Spellings

\* Entries that are servers one can connect through, in a dialect the parser
\* supports: unknown schemes and types are skipped on purpose, and a line
\* without an address or a readable payload is no URI of its scheme (but see
\* ParseVmessUri).
Offered(e, dialect) ==
    CASE dialect = "uri" ->
            \/ e.as = "hysteria" \/ (e.as = "vmess" /\ e.form = "usual")
            \/ /\ e.addressed
               /\ e.as \in {"vless", "trojan", "ss", "shadowsocks", "hy2", "hysteria2"}
      [] dialect = "singbox" ->
            \E p \in Proxies : Same(e.as, p) /\ e.as \notin {"wg", "h2"}
      [] OTHER -> \E p \in Proxies : Same(e.as, p)

\* Answers of which the parser keeps nothing: a comment in JSON, // inside a
\* string of an xray object, an array inside base64 or of sing-box documents
\* or behind an element that is no configuration, a sing-box list that starts
\* with a group or holds one malformed "tls".
BlindSpot(b) ==
    CASE b.opens = "text" -> b.clash
      [] b.opens = "array" ->
            \/ b.wrapped \/ b.comments = "comments" \/ b.speaks = "singbox"
            \/ b.configs = <<>> \/ b.configs[1] = Null
            \/ b.configs[1].outbounds = Null /\ ~b.configs[1].others
      [] OTHER ->
            \/ b.comments = "comments"
            \/ b.speaks = "xray" /\ b.comments = "slashes"
            \/ /\ b.speaks = "singbox"
               /\ LET list == OutboundsOf(b.configs[1])
                  IN  \/ list = <<>> \/ list[1] = Null \/ ~list[1].addressed
                      \/ \E i \in DOMAIN list : list[i] # Null /\ RaisesInSingbox(list[i])

\* The servers an answer offers, in order.
Offers(b) ==
    IF BlindSpot(b) THEN <<>>
    ELSE Where(Entries(b), {i \in DOMAIN Entries(b) :
                               Entries(b)[i] # Null /\ Offered(Entries(b)[i], b.speaks)})

\* Every server the provider offers is stored, once and in order, and nothing
\* else is; an answer in a blind spot leaves nothing at all (and a refresh then
\* empties the subscription).  About _parse_raw_content, _detect_sub_format
\* and the parsers of the three dialects together.
EveryOfferIsStored ==
    pc = "done" =>
        [i \in DOMAIN stored |-> stored[i].id]
            = [i \in DOMAIN Offers(body) |-> Offers(body)[i].id]

\* What the way from an entry to an xray outbound is known to lose: servers of
\* protocols the rebuild does not know, entries without an address, a host and
\* port in an odd form (stored as an address with port 0), garbled ss:// user
\* info, transports without a payload in StreamInfo, REALITY keys of vmess, the
\* request to accept any certificate (not read, or read and not written back),
\* and options that are not read or not written back.
KnownLoss(e, dialect) ==
    CASE dialect = "uri" ->
            \/ e.as \in {"hysteria", "shadowsocks"} \/ ~e.addressed
            \/ e.form = "odd" \/ e.insecure
            \/ e.as = "ss" /\ e.userinfo = "plain"
            \/ e.net \in {"udp", "quic", "kcp", "httpupgrade"}
            \/ e.as = "vmess" /\ (Same(e.net, "xhttp") \/ e.sec = "reality")
            \/ e.extra /\ e.as \notin {"vless", "vmess"}
      [] dialect = "singbox" ->
            \/ e.as \in {"hysteria", "wireguard", "socks", "http"}
            \/ ~e.addressed \/ e.insecure
            \/ e.net \in {"httpupgrade", "quic"}
            \/ e.extra /\ e.as # "vless"
      [] OTHER -> FALSE

\* d is the server that e describes.
Meant(d, e) ==
    /\ Same(d.protocol, e.as) /\ Same(d.network, e.net)
    /\ d.security = e.sec /\ d.extra = e.extra
    /\ d.addressed = e.addressed /\ d.server = "own"
    /\ \A n \in Needs(e) : \E m \in d.settings : Same(m, n)

\* Apart from the losses above, a stored outbound is the server its entry
\* describes: protocol, address and credentials, network and security, and the
\* settings these need.  About the parsers and _outbound_info_to_xray_dict,
\* which must agree on the names of networks and attributes.
StoredAsMeant ==
    pc = "done" =>
        \A i \in DOMAIN stored \cap DOMAIN Offers(body) :
            KnownLoss(Offers(body)[i], body.speaks) \/ Meant(stored[i], Offers(body)[i])

\* The name of a server before duplicates are renamed.
NameOf(e, dialect) ==
    IF dialect = "singbox" THEN SingboxOutboundToInfo(e).tag ELSE ParseUri(e).tag

\* Entries of one tag are told apart once stored, unless the provider used a
\* name that looks like a renamed one itself.  About _dedup_tags, which is not
\* applied to xray documents.
TagsApart ==
    (pc = "done" /\ body.speaks # "xray") =>
        LET names == {NameOf(Offers(body)[i], body.speaks) : i \in DOMAIN Offers(body)}
        IN  \/ \E t, u \in names :
                  t.numbers # <<>> /\ u = [t EXCEPT !.numbers = Front(@)]
            \/ \A i, j \in DOMAIN stored : stored[i].tag = stored[j].tag => i = j

=============================================================================
