---------------------------- MODULE XrayConfigProofs ----------------------------
(***************************************************************************)
(* What the outbound of a link keeps of it, for every link that parses and *)
(* not only for those of the model-checking run.                           *)
(***************************************************************************)
EXTENDS XrayConfig, SequenceTheorems, WellFoundedInduction, TLAPS

\* The handlers of rules leave the active proxy alone.
LEMMA LinkStays == Spec => [](link \in Links)
  <1>1. Init => link \in Links
    BY DEF Init
  <1>2. link \in Links /\ [Next]_vars => (link \in Links)'
    BY DEF Next, CreateRule, UpdateRule, DeleteRule, ReorderRules, vars
  <1> QED BY <1>1, <1>2, PTL DEF Spec

\* A link that parses has a host, and goes to the parser of its scheme.
LEMMA ParsedBy ==
  ASSUME NEW l \in Link, Parse(l) # Failed
  PROVE  /\ l.host # Empty
         /\ l.scheme = "vmess" => Parse(l) = Vmess(l)
         /\ l.scheme = "vless" => Parse(l) = Vless(l)
         /\ l.scheme = "trojan" => Parse(l) = Trojan(l)
         /\ l.scheme = "ss" => Parse(l) = Shadowsocks(l)
         /\ l.scheme = "hy2" => Parse(l) = Hysteria2(l)
  <1>1. ~Refused(l) /\ Parse(l) = Dispatched(l)
    BY DEF Parse
  <1>2. l.host # Empty
    BY <1>1 DEF Refused
  <1> QED BY <1>1, <1>2 DEF Dispatched

\* Which security the two fields of a proxy stand for.
LEMMA SecurityRead ==
  ASSUME NEW p
  PROVE  /\ p.security = "reality" => Security(p) = "reality"
         /\ p.security # "reality" /\ p.tls = TRUE => Security(p) = "tls"
         /\ p.security # "reality" /\ p.tls = FALSE => Security(p) = "none"
  BY DEF Security

\* vless writes the security to both fields, and means TLS by "xtls" too.
LEMMA VlessSecurity ==
  ASSUME NEW l, l.scheme = "vless"
  PROVE  Security(Vless(l)) = Asked(l)
  <1> DEFINE s == Lower(l.security)
  <1>1. Vless(l).security = s /\ Vless(l).tls = (s \in {"tls", "reality", "xtls"})
    BY DEF Vless, FromUrl
  <1> HIDE DEF s
  <1>2. Asked(l) = IF s = "reality" THEN s ELSE IF s \in {"tls", "xtls"} THEN "tls" ELSE "none"
    BY DEF Asked, s
  <1>3. CASE s = "reality"
    BY <1>1, <1>2, <1>3, SecurityRead
  <1>4. CASE s \in {"tls", "xtls"}
    BY <1>1, <1>2, <1>4, SecurityRead
  <1>5. CASE s \notin {"tls", "xtls", "reality"}
    <2>1. (s \in {"tls", "reality", "xtls"}) = FALSE
      BY <1>5
    <2>2. Asked(l) = "none"
      BY <1>2, <1>5
    <2> QED BY <1>1, <1>5, <2>1, <2>2, SecurityRead
  <1> QED BY <1>3, <1>4, <1>5

\* trojan has TLS unless the link says otherwise.
LEMMA TrojanSecurity ==
  ASSUME NEW l, l.scheme = "trojan"
  PROVE  Security(Trojan(l)) = Asked(l)
  <1> DEFINE s == Lower(l.security)
  <1>1. Trojan(l).security = FirstNonEmpty(s, "tls") /\ Trojan(l).tls = (s # "none")
    BY DEF Trojan, FromUrl
  <1> HIDE DEF s
  <1>2. Asked(l) = IF s \in {"reality", "none"} THEN s ELSE "tls"
    BY DEF Asked, s
  <1>3. CASE s = "reality"
    BY <1>1, <1>2, <1>3, SecurityRead DEF FirstNonEmpty, Empty
  <1>4. CASE s = "none"
    <2>1. Trojan(l).tls = FALSE
      BY <1>1, <1>4
    <2>2. Trojan(l).security = "none"
      BY <1>1, <1>4 DEF FirstNonEmpty, Empty
    <2> QED BY <1>2, <1>4, <2>1, <2>2, SecurityRead
  <1>5. CASE s \notin {"reality", "none"}
    <2>1. Trojan(l).tls = TRUE
      BY <1>1, <1>5
    <2>2. Trojan(l).security # "reality"
      BY <1>1, <1>5 DEF FirstNonEmpty
    <2> QED BY <1>2, <1>5, <2>1, <2>2, SecurityRead
  <1> QED BY <1>3, <1>4, <1>5

\* vmess keeps its cipher in the field that is named security, ss has neither,
\* and hysteria2 always has TLS.  "reality" is no cipher of a vmess link.
LEMMA OtherSecurity ==
  ASSUME NEW l
  PROVE  /\ l.scheme = "vmess" /\ l.cipher # "reality" => Security(Vmess(l)) = Asked(l)
         /\ l.scheme = "ss" => Security(Shadowsocks(l)) = Asked(l)
         /\ l.scheme = "hy2" => Security(Hysteria2(l)) = Asked(l)
  <1>1. ASSUME l.scheme = "vmess", l.cipher # "reality" PROVE Security(Vmess(l)) = Asked(l)
    <2>1. Vmess(l).security # "reality" /\ Vmess(l).tls = (Lower(l.security) = "tls")
      BY <1>1 DEF Vmess, FirstNonEmpty
    <2>2. Asked(l) = IF Lower(l.security) = "tls" THEN "tls" ELSE "none"
      BY <1>1 DEF Asked
    <2>3. CASE Lower(l.security) = "tls"
      BY <2>1, <2>2, <2>3, SecurityRead
    <2>4. CASE Lower(l.security) # "tls"
      <3>1. Vmess(l).tls = FALSE
        BY <2>1, <2>4
      <3> QED BY <2>1, <2>2, <2>4, <3>1, SecurityRead
    <2> QED BY <2>3, <2>4
  <1>2. ASSUME l.scheme = "ss" PROVE Security(Shadowsocks(l)) = Asked(l)
    <2>1. Shadowsocks(l).security = Empty /\ Shadowsocks(l).tls = FALSE
      BY DEF Shadowsocks
    <2>2. Asked(l) = "none"
      BY <1>2 DEF Asked
    <2> QED BY <2>1, <2>2, SecurityRead DEF Empty
  <1>3. ASSUME l.scheme = "hy2" PROVE Security(Hysteria2(l)) = Asked(l)
    <2>1. Hysteria2(l).security # "reality" /\ Hysteria2(l).tls = TRUE
      BY DEF Hysteria2, FromUrl
    <2>2. Asked(l) = "tls"
      BY <1>3 DEF Asked
    <2> QED BY <2>1, <2>2, SecurityRead
  <1> QED BY <1>1, <1>2, <1>3

-----------------------------------------------------------------------------
\* The other fields an outbound is made of, as each parser sets them.
LEMMA ParsedFields ==
  ASSUME NEW l, NEW p,
         \/ l.scheme = "vmess" /\ p = Vmess(l)
         \/ l.scheme = "vless" /\ p = Vless(l)
         \/ l.scheme = "trojan" /\ p = Trojan(l)
         \/ l.scheme = "ss" /\ p = Shadowsocks(l)
         \/ l.scheme = "hy2" /\ p = Hysteria2(l)
  PROVE  /\ p.protocol = l.scheme /\ p.address = l.host
         /\ l.sni # Empty /\ l.scheme # "ss" => p.sni = l.sni
         /\ l.scheme = "hy2" /\ p.security = "tls-insecure" => l.insecure # Empty
         /\ l.scheme = "vless" => p.publicKey = l.pbk
  <1>1. CASE l.scheme = "vmess" /\ p = Vmess(l)
    <2>1. p.protocol = "vmess" /\ p.address = l.host /\ p.sni = FirstNonEmpty(l.sni, l.httpHost)
      BY <1>1 DEF Vmess
    <2> QED BY <1>1, <2>1 DEF FirstNonEmpty
  <1>2. CASE l.scheme = "vless" /\ p = Vless(l)
    <2>1. /\ p.protocol = l.scheme /\ p.address = l.host
          /\ p.sni = FirstNonEmpty(l.sni, l.peer) /\ p.publicKey = l.pbk
      BY <1>2 DEF Vless, FromUrl
    <2> QED BY <1>2, <2>1 DEF FirstNonEmpty
  <1>3. CASE l.scheme = "trojan" /\ p = Trojan(l)
    <2>1. p.protocol = l.scheme /\ p.address = l.host /\ p.sni = FirstNonEmpty(l.sni, l.peer)
      BY <1>3 DEF Trojan, FromUrl
    <2> QED BY <1>3, <2>1 DEF FirstNonEmpty
  <1>4. CASE l.scheme = "ss" /\ p = Shadowsocks(l)
    <2>1. p.protocol = "ss" /\ p.address = l.host
      BY <1>4 DEF Shadowsocks
    <2> QED BY <1>4, <2>1
  <1>5. CASE l.scheme = "hy2" /\ p = Hysteria2(l)
    <2>1. /\ p.protocol = l.scheme /\ p.address = l.host /\ p.sni = FirstNonEmpty(l.sni, l.peer)
          /\ p.security = IF l.insecure = "1" \/ Lower(l.insecure) = "true" THEN "tls-insecure" ELSE "tls"
      BY <1>5 DEF Hysteria2, FromUrl
    <2>2. Lower(Empty) # "true" /\ Empty # "1"
      BY TextAssumption DEF Words, Empty
    <2> QED BY <1>5, <2>1, <2>2 DEF FirstNonEmpty
  <1> QED BY <1>1, <1>2, <1>3, <1>4, <1>5

\* The outbound of a link that parses.
LEMMA OutboundSecurity ==
  ASSUME NEW l \in Link, Parse(l) # Failed, NEW o, o = Outbound(Parse(l))
  PROVE  /\ l.scheme # "vmess" \/ l.cipher # "reality" => o.security = Asked(l)
         /\ l.sni # Empty /\ o.security # "none" => o.serverName = l.sni
         /\ o.security # "none" => o.serverName # Empty
         /\ o.insecure => l.scheme = "hy2" /\ l.insecure # Empty
         /\ o.security = "reality" /\ l.scheme = "vless" => o.publicKey = l.pbk
         /\ o.security # "reality" => o.publicKey = Empty
  <1> DEFINE p == Parse(l)
  <1>1. /\ o.security = Security(p)
        /\ o.serverName = IF Security(p) = "none" THEN Empty ELSE FirstNonEmpty(p.sni, p.address)
        /\ o.publicKey = IF Security(p) = "reality" THEN p.publicKey ELSE Empty
        /\ o.insecure <=> p.protocol = "hy2" /\ p.security = "tls-insecure"
    BY DEF Outbound
  <1>2. l.scheme \in {"vmess", "vless", "trojan", "ss", "hy2"} /\ l.host # Empty
    BY ParsedBy DEF Link
  <1>3. l.scheme # "vmess" \/ l.cipher # "reality" => Security(p) = Asked(l)
    BY <1>2, ParsedBy, VlessSecurity, TrojanSecurity, OtherSecurity
  <1>4. /\ p.protocol = l.scheme /\ p.address = l.host
        /\ l.sni # Empty /\ l.scheme # "ss" => p.sni = l.sni
        /\ l.scheme = "hy2" /\ p.security = "tls-insecure" => l.insecure # Empty
        /\ l.scheme = "vless" => p.publicKey = l.pbk
    BY <1>2, ParsedBy, ParsedFields
  <1>5. l.scheme = "ss" => Security(p) = "none"
    BY <1>3 DEF Asked
  <1> HIDE DEF p
  <1>6. /\ l.sni # Empty /\ o.security # "none" => o.serverName = l.sni
        /\ o.security # "none" => o.serverName # Empty
    BY <1>1, <1>2, <1>4, <1>5 DEF FirstNonEmpty
  <1>7. o.insecure => l.scheme = "hy2" /\ l.insecure # Empty
    BY <1>1, <1>4
  <1>8. l.scheme # "vmess" \/ l.cipher # "reality" => o.security = Asked(l)
    BY <1>1, <1>3
  <1>9. /\ o.security = "reality" /\ l.scheme = "vless" => o.publicKey = l.pbk
        /\ o.security # "reality" => o.publicKey = Empty
    BY <1>1, <1>4
  <1> QED BY <1>6, <1>7, <1>8, <1>9

\* Whatever the link of the active proxy, its outbound keeps the security the
\* link asks for, the name to vouch for and the key (parser.go:66, 96, 126,
\* 154, 229; config.go:199).
THEOREM SecurityIsKept == Spec => []SecurityKept
  <1>1. link \in Links => SecurityKept
    BY ConfigAssumption, OutboundSecurity DEF SecurityKept, out, GenerateConfig
  <1> QED BY <1>1, LinkStays, PTL

-----------------------------------------------------------------------------
(* The server.                                                             *)

\* The fields that say where the server is and how to talk to it.
LEMMA ParsedServer ==
  ASSUME NEW l, NEW p,
         \/ l.scheme = "vmess" /\ p = Vmess(l)
         \/ l.scheme = "vless" /\ p = Vless(l)
         \/ l.scheme = "trojan" /\ p = Trojan(l)
         \/ l.scheme = "ss" /\ p = Shadowsocks(l)
         \/ l.scheme = "hy2" /\ p = Hysteria2(l)
  PROVE  /\ p.protocol = l.scheme /\ p.user = l.user
         /\ IsNumber(l.port) => p.port = l.port.value
         /\ ~IsNumber(l.port) /\ l.scheme \in {"vless", "trojan", "hy2"} => p.port = 443
         /\ l.scheme \in {"vmess", "vless", "trojan"} /\ l.type \in {"ws", "h2", "http", "grpc"} =>
              /\ p.network = l.type
              /\ l.path # Empty => p.path = l.path
              /\ l.path = Empty /\ l.service # Empty /\ l.scheme # "vmess" => p.path = l.service
              /\ l.httpHost # Empty => p.host = l.httpHost
  <1>0. IsNumber(l.port) => Number(l.port) = l.port.value
    BY TextAssumption DEF IsNumber, Number
  <1>1. CASE l.scheme = "vmess" /\ p = Vmess(l)
    <2>1. /\ p.protocol = "vmess" /\ p.user = l.user /\ p.port = Number(l.port)
          /\ p.network = FirstNonEmpty(Lower(l.type), "tcp") /\ p.path = l.path /\ p.host = l.httpHost
      BY <1>1 DEF Vmess
    <2>2. l.type \in {"ws", "h2", "http", "grpc"} => Lower(l.type) = l.type /\ l.type # Empty
      BY TextAssumption DEF Words, Empty
    <2> QED BY <1>0, <1>1, <2>1, <2>2 DEF FirstNonEmpty
  <1>2. CASE (l.scheme = "vless" /\ p = Vless(l)) \/ (l.scheme = "trojan" /\ p = Trojan(l))
    <2>1. /\ p.protocol = l.scheme /\ p.user = l.user /\ p.port = AtoiDefault(l.port, 443)
          /\ p.network = FirstNonEmpty(l.type, "tcp")
          /\ p.path = FirstNonEmpty(l.path, l.service)
          /\ p.host = FirstNonEmpty(l.httpHost, FirstNonEmpty(l.sni, l.peer))
      <3>1. CASE l.scheme = "vless" /\ p = Vless(l)
        BY <3>1 DEF Vless, FromUrl
      <3>2. CASE l.scheme = "trojan" /\ p = Trojan(l)
        BY <3>2 DEF Trojan, FromUrl
      <3> QED BY <1>2, <3>1, <3>2
    <2>2. l.type \in {"ws", "h2", "http", "grpc"} => l.type # Empty
      BY DEF Empty
    <2> QED BY <1>0, <1>2, <2>1, <2>2 DEF FirstNonEmpty, AtoiDefault
  <1>3. CASE l.scheme = "ss" /\ p = Shadowsocks(l)
    <2>1. p.protocol = "ss" /\ p.user = l.user /\ p.port = Number(l.port)
      BY <1>3 DEF Shadowsocks
    <2> QED BY <1>0, <1>3, <2>1
  <1>4. CASE l.scheme = "hy2" /\ p = Hysteria2(l)
    <2>1. p.protocol = l.scheme /\ p.user = l.user /\ p.port = AtoiDefault(l.port, 443)
      BY <1>4 DEF Hysteria2, FromUrl
    <2> QED BY <1>0, <1>4, <2>1 DEF AtoiDefault
  <1> QED BY <1>1, <1>2, <1>3, <1>4

\* The block of a network has its name, and a path where it needs one.
LEMMA TransportOf ==
  ASSUME NEW p
  PROVE  /\ p.network \in {"ws", "h2", "http"} => /\ Transport(p).block = p.network
                                                   /\ Transport(p).path = FirstNonEmpty(p.path, "/")
                                                   /\ Transport(p).host = p.host
         /\ p.network = "grpc" => Transport(p).block = "grpc" /\ Transport(p).path = p.path
         /\ p.network \notin {"ws", "h2", "http", "grpc"} => Transport(p).block = Empty
  <1>1. CASE p.network \in {"ws", "h2", "http"}
    <2>1. Transport(p) = [block |-> p.network, path |-> FirstNonEmpty(p.path, "/"), host |-> p.host]
      BY <1>1 DEF Transport
    <2> QED BY <1>1, <2>1
  <1>2. CASE p.network = "grpc"
    <2>1. Transport(p) = [block |-> "grpc", path |-> p.path, host |-> Empty]
      BY <1>2 DEF Transport
    <2> QED BY <1>2, <2>1
  <1>3. CASE p.network \notin {"ws", "h2", "http", "grpc"}
    <2>1. Transport(p) = [block |-> Empty, path |-> Empty, host |-> Empty]
      BY <1>3 DEF Transport
    <2> QED BY <1>3, <2>1
  <1> QED BY <1>1, <1>2, <1>3

\* Whatever the link of the active proxy, its outbound goes to the server the
\* link names, over the network it names (parser.go:82, 104, 134, 242;
\* config.go:182).
THEOREM ServerIsKept == Spec => []ServerKept
  <1>1. ASSUME link \in Links PROVE ServerKept
    <2> DEFINE p == Parse(link)
    <2>1. link \in Link /\ Parse(link) # Failed
      BY <1>1, ConfigAssumption
    <2>2. link.scheme \in {"vmess", "vless", "trojan", "ss", "hy2"}
      BY <2>1 DEF Link
    <2>3. \/ link.scheme = "vmess" /\ p = Vmess(link)
          \/ link.scheme = "vless" /\ p = Vless(link)
          \/ link.scheme = "trojan" /\ p = Trojan(link)
          \/ link.scheme = "ss" /\ p = Shadowsocks(link)
          \/ link.scheme = "hy2" /\ p = Hysteria2(link)
      BY <2>1, <2>2, ParsedBy
    <2>4. /\ out.address = p.address /\ out.port = p.port /\ out.user = p.user
          /\ out.network = FirstNonEmpty(p.network, "tcp")
          /\ out.transport = IF p.protocol \in {"ss", "hy2"}
                               THEN Transport([p EXCEPT !.network = "tcp"]) ELSE Transport(p)
      BY DEF out, GenerateConfig, Outbound
    <2>5. p.address = link.host
      BY <2>3, ParsedFields
    <2> HIDE DEF p
    <2>6. /\ p.protocol = link.scheme /\ p.user = link.user
          /\ IsNumber(link.port) => p.port = link.port.value
          /\ ~IsNumber(link.port) /\ link.scheme \in {"vless", "trojan", "hy2"} => p.port = 443
          /\ link.scheme \in {"vmess", "vless", "trojan"} /\ link.type \in {"ws", "h2", "http", "grpc"} =>
               /\ p.network = link.type
               /\ link.path # Empty => p.path = link.path
               /\ link.path = Empty /\ link.service # Empty /\ link.scheme # "vmess" => p.path = link.service
               /\ link.httpHost # Empty => p.host = link.httpHost
      BY <2>3, ParsedServer
    <2>7. out.transport.block # Empty => out.transport.block = out.network
      <3>1. CASE p.protocol \in {"ss", "hy2"}
        <4>1. [p EXCEPT !.network = "tcp"].network \notin {"ws", "h2", "http", "grpc"}
          BY <2>3, <2>6, <3>1 DEF p, Shadowsocks, Hysteria2, FromUrl
        <4> QED BY <2>4, <3>1, <4>1, TransportOf
      <3>2. CASE p.protocol \notin {"ss", "hy2"}
        BY <2>4, <3>2, TransportOf DEF FirstNonEmpty, Empty
      <3> QED BY <3>1, <3>2
    <2>8. ASSUME link.scheme \in {"vmess", "vless", "trojan"}, link.type \in {"ws", "h2", "http", "grpc"}
          PROVE  /\ out.transport.block = link.type /\ out.network = link.type
                 /\ link.path # Empty => out.transport.path = link.path
                 /\ link.path = Empty /\ link.service # Empty /\ link.scheme # "vmess" =>
                      out.transport.path = link.service
                 /\ link.type # "grpc" /\ link.httpHost # Empty => out.transport.host = link.httpHost
                 /\ link.type # "grpc" => out.transport.path # Empty
      <3>1. out.transport = Transport(p) /\ p.network = link.type
        BY <2>4, <2>6, <2>8
      <3>2. /\ link.path # Empty => p.path = link.path
            /\ link.path = Empty /\ link.service # Empty /\ link.scheme # "vmess" => p.path = link.service
            /\ link.httpHost # Empty => p.host = link.httpHost
        BY <2>6, <2>8
      <3>3. CASE link.type = "grpc"
        BY <2>4, <3>1, <3>2, <3>3, TransportOf DEF FirstNonEmpty, Empty
      <3>4. CASE link.type \in {"ws", "h2", "http"}
        <4>1. /\ Transport(p).block = link.type /\ Transport(p).host = p.host
              /\ Transport(p).path = FirstNonEmpty(p.path, "/")
          BY <3>1, <3>4, TransportOf
        <4>2. FirstNonEmpty(p.path, "/") # Empty /\ (p.path # Empty => FirstNonEmpty(p.path, "/") = p.path)
          BY DEF FirstNonEmpty, Empty
        <4> QED BY <2>4, <3>1, <3>2, <3>4, <4>1, <4>2 DEF FirstNonEmpty, Empty
      <3> QED BY <2>8, <3>3, <3>4
    <2> QED BY <2>4, <2>5, <2>6, <2>7, <2>8 DEF ServerKept
  <1> QED BY <1>1, LinkStays, PTL

-----------------------------------------------------------------------------
(* The rules.                                                              *)

\* A non-empty set of positions has a first, and nothing else comes first.
LEMMA FirstOf ==
  ASSUME NEW S, S \subseteq Nat, S # {}
  PROVE  \E m \in S : (\A i \in S : m <= i) /\ {i \in S : \A j \in S : ~(j < i)} = {m}
  <1>1. PICK m \in S : \A i \in S : <<i, m>> \notin OpToRel(<, Nat)
    BY NatLessThanWellFounded, WFMin
  <1>2. \A i \in S : ~(i < m)
    BY <1>1 DEF OpToRel
  <1>3. \A i \in S : m <= i
    BY <1>2
  <1>4. \A i \in S : i # m => m < i
    BY <1>3
  <1> QED BY <1>2, <1>3, <1>4

\* The rules stay a list of rules, under every edit.
LEMMA TypeInvariance == Spec => []TypeOK
  <1>1. Init => TypeOK
    BY EmptySeq, ConfigAssumption DEF Init, TypeOK
  <1>2. ASSUME TypeOK, Next PROVE TypeOK'
    <2>1. link' = link /\ rules \in Seq(Rule) /\ Len(rules) \in Nat /\ Len(rules) <= MaxRules
          /\ DOMAIN rules = 1 .. Len(rules) /\ MaxRules \in Nat
      BY <1>2, LenProperties, ConfigAssumption
      DEF TypeOK, Next, CreateRule, UpdateRule, DeleteRule, ReorderRules
    <2>2. CASE CreateRule
      <3>1. PICK r \in Rule : rules' = Append(rules, r)
        BY <2>2 DEF CreateRule
      <3>2. rules' \in Seq(Rule) /\ Len(rules') = Len(rules) + 1
        BY <2>1, <3>1, AppendProperties
      <3> QED BY <1>2, <2>1, <2>2, <3>2 DEF TypeOK, CreateRule
    <2>3. CASE UpdateRule
      <3>1. PICK i \in 1 .. Len(rules), r \in Rule : rules' = [rules EXCEPT ![i] = r]
        BY <2>1, <2>3 DEF UpdateRule
      <3>2. rules' \in Seq(Rule) /\ Len(rules') = Len(rules)
        BY <2>1, <3>1, ExceptSeq
      <3> QED BY <1>2, <2>1, <3>2 DEF TypeOK
    <2>4. CASE DeleteRule
      <3>1. PICK i \in 1 .. Len(rules) :
              rules' = [j \in 1 .. Len(rules) - 1 |-> IF j < i THEN rules[j] ELSE rules[j + 1]]
        BY <2>1, <2>4 DEF DeleteRule
      <3>2. \A j \in 1 .. Len(rules) - 1 : rules[j] \in Rule /\ rules[j + 1] \in Rule
        BY <2>1, ElementOfSeq
      <3>3. Len(rules) - 1 \in Nat
        BY <2>1
      <3>4. rules' \in [1 .. Len(rules) - 1 -> Rule]
        BY <3>1, <3>2
      <3>5. rules' \in Seq(Rule) /\ Len(rules') = Len(rules) - 1
        BY <3>3, <3>4, SeqDef
      <3> QED BY <1>2, <2>1, <3>5 DEF TypeOK
    <2>5. CASE ReorderRules
      <3>1. PICK new \in [1 .. Len(rules) -> Priorities] :
              rules' = [i \in 1 .. Len(rules) |-> [rules[i] EXCEPT !.priority = new[i]]]
        BY <2>1, <2>5 DEF ReorderRules
      <3>2. \A i \in 1 .. Len(rules) : rules[i] \in Rule
        BY <2>1, ElementOfSeq
      <3>3. \A i \in 1 .. Len(rules) : [rules[i] EXCEPT !.priority = new[i]] \in Rule
        BY <3>1, <3>2 DEF Rule
      <3>4. rules' \in [1 .. Len(rules) -> Rule]
        BY <3>1, <3>3
      <3>5. rules' \in Seq(Rule) /\ Len(rules') = Len(rules)
        BY <2>1, <3>4, SeqDef
      <3> QED BY <1>2, <2>1, <3>5 DEF TypeOK
    <2> QED BY <1>2, <2>2, <2>3, <2>4, <2>5 DEF Next
  <1>3. TypeOK /\ UNCHANGED vars => TypeOK'
    BY DEF TypeOK, vars
  <1> QED BY <1>1, <1>2, <1>3, PTL DEF Spec

\* The stored rules of some types that are enabled and name d.
Naming(types, d) ==
  {i \in DOMAIN rules : rules[i].enabled /\ rules[i].type \in types /\ rules[i].condition = d}

\* The entries of the config that match d by its name, or by its address.
Matching(by, d) == {i \in DOMAIN RoutingRules : RoutingRules[i].by = by /\ RoutingRules[i].condition = d}

\* What entry an enabled rule with a condition becomes, and that there is no
\* other but the fixed one, which is last.
LEMMA Entries ==
  ASSUME TypeOK
  PROVE  LET last == Len(rules) + 1
             I == {n \in DOMAIN rules : Generates(rules[n])}
         IN  /\ DOMAIN rules = 1 .. Len(rules) /\ Len(rules) \in Nat
             /\ DOMAIN RoutingRules = I \cup {last} /\ last \notin I
             /\ RoutingRules[last] = Private
             /\ \A i \in I : /\ RoutingRules[i].by = (IF rules[i].type = "domain" THEN "domain" ELSE "ip")
                             /\ RoutingRules[i].condition = rules[i].condition
                             /\ RoutingRules[i].tag = rules[i].action
  <1>1. rules \in Seq(Rule) /\ Len(rules) \in Nat /\ DOMAIN rules = 1 .. Len(rules)
    BY LenProperties DEF TypeOK
  <1> DEFINE last == Len(rules) + 1
             I == {n \in DOMAIN rules : Generates(rules[n])}
  <1>2. last \notin I
    BY <1>1
  <1>3. DOMAIN Generated = I
    BY DEF Generated
  <1>4. \A i \in I : Generated[i] = [by |-> IF rules[i].type = "domain" THEN "domain" ELSE "ip",
                                     condition |-> rules[i].condition, tag |-> rules[i].action]
    BY DEF Generated
  <1>5. RoutingRules = [i \in I \cup {last} |-> IF i = last THEN Private ELSE Generated[i]]
    BY <1>3 DEF RoutingRules, PutAt
  <1> HIDE DEF I, last
  <1>6. /\ DOMAIN RoutingRules = I \cup {last} /\ RoutingRules[last] = Private
        /\ \A i \in I : RoutingRules[i] = Generated[i]
    BY <1>2, <1>5
  <1>7. \A i \in I : /\ RoutingRules[i].by = (IF rules[i].type = "domain" THEN "domain" ELSE "ip")
                     /\ RoutingRules[i].condition = rules[i].condition
                     /\ RoutingRules[i].tag = rules[i].action
    <2> SUFFICES ASSUME NEW i \in I
                 PROVE  /\ RoutingRules[i].by = (IF rules[i].type = "domain" THEN "domain" ELSE "ip")
                        /\ RoutingRules[i].condition = rules[i].condition
                        /\ RoutingRules[i].tag = rules[i].action
      OBVIOUS
    <2>1. RoutingRules[i] = [by |-> IF rules[i].type = "domain" THEN "domain" ELSE "ip",
                             condition |-> rules[i].condition, tag |-> rules[i].action]
      BY <1>4, <1>6
    <2> QED BY <2>1
  <1> QED BY <1>1, <1>2, <1>6, <1>7 DEF I, last

\* The entries that match by name are the rules that name it by domain; those
\* that match by address are the other rules, and the fixed one if it is private.
LEMMA Matches ==
  ASSUME TypeOK, NEW d \in Destinations
  PROVE  /\ Matching("domain", d) = Naming({"domain"}, d)
         /\ Matching("ip", d) = Naming({"ip", "geoip"}, d) \cup
              (IF d = "lan" THEN {Len(rules) + 1} ELSE {})
         /\ \A i \in DOMAIN RoutingRules : RoutingRules[i].condition # Empty
         /\ \A i \in Naming({"domain"}, d) \cup Naming({"ip", "geoip"}, d) :
              RoutingRules[i].tag = rules[i].action
  <1> DEFINE last == Len(rules) + 1
             I == {n \in DOMAIN rules : Generates(rules[n])}
  <1>1. /\ DOMAIN RoutingRules = I \cup {last} /\ last \notin I /\ last \notin DOMAIN rules
        /\ RoutingRules[last] = Private
        /\ \A i \in I : /\ RoutingRules[i].by = (IF rules[i].type = "domain" THEN "domain" ELSE "ip")
                        /\ RoutingRules[i].condition = rules[i].condition
                        /\ RoutingRules[i].tag = rules[i].action
    BY Entries
  <1>2. Private.by = "ip" /\ Private.condition = "lan" /\ "lan" # Empty
    BY DEF Private, Empty
  <1>3. d # Empty
    BY ConfigAssumption
  <1>4. \A i \in I : rules[i].condition # Empty
    BY DEF Generates
  <1>5. Naming({"domain"}, d) = {i \in I : rules[i].type = "domain" /\ rules[i].condition = d}
    BY <1>3 DEF Naming, Generates, Generating
  <1>6. Naming({"ip", "geoip"}, d) = {i \in I : rules[i].type # "domain" /\ rules[i].condition = d}
    BY <1>3 DEF Naming, Generates, Generating
  <1> HIDE DEF I, last
  <1>7. Matching("domain", d) = Naming({"domain"}, d)
    BY <1>1, <1>2, <1>5 DEF Matching
  <1>8. Matching("ip", d) = Naming({"ip", "geoip"}, d) \cup (IF d = "lan" THEN {last} ELSE {})
    BY <1>1, <1>2, <1>6 DEF Matching
  <1> QED BY <1>1, <1>2, <1>4, <1>5, <1>6, <1>7, <1>8 DEF last

\* xray goes by the first entry that matches by name, or else by address.
LEMMA DecidedBy ==
  ASSUME TypeOK, NEW d \in Destinations
  PROVE  /\ \A m \in Matching("domain", d) :
              (\A i \in Matching("domain", d) : m <= i) => Decide(d) = RoutingRules[m].tag
         /\ Matching("domain", d) = {} =>
              \A m \in Matching("ip", d) :
                (\A i \in Matching("ip", d) : m <= i) => Decide(d) = RoutingRules[m].tag
         /\ Matching("domain", d) = {} /\ Matching("ip", d) = {} => Decide(d) = "proxy"
  <1> DEFINE routing == GenerateConfig.rules
             first(by) == {i \in DOMAIN routing : /\ routing[i].by = by /\ routing[i].condition = d
                                                  /\ \A j \in DOMAIN routing :
                                                       j < i /\ routing[j].by = by => routing[j].condition # d}
             hit == IF first("domain") # {} THEN first("domain") ELSE first("ip")
  <1>1. routing = RoutingRules
    BY DEF GenerateConfig
  <1>2. /\ DOMAIN RoutingRules \subseteq Nat
        /\ \A i \in DOMAIN RoutingRules : RoutingRules[i].condition # Empty
    BY Entries, Matches
  <1>3. Decide(d) = IF hit = {} THEN "proxy" ELSE routing[CHOOSE i \in hit : TRUE].tag
    BY <1>1, <1>2 DEF Decide
  <1>4. ASSUME NEW by
        PROVE  first(by) = {i \in Matching(by, d) : \A j \in Matching(by, d) : ~(j < i)}
    BY <1>1 DEF Matching
  <1>5. ASSUME NEW by, Matching(by, d) # {}
        PROVE  \E m \in Matching(by, d) : (\A i \in Matching(by, d) : m <= i) /\ first(by) = {m}
    <2>1. Matching(by, d) \subseteq Nat
      BY <1>2 DEF Matching
    <2> HIDE DEF first
    <2> QED BY <1>4, <1>5, <2>1, FirstOf
  <1>6. ASSUME NEW by, Matching(by, d) = {}
        PROVE  first(by) = {}
    BY <1>4, <1>6
  <1>7. ASSUME NEW by, NEW m \in Matching(by, d), \A i \in Matching(by, d) : m <= i
        PROVE  first(by) = {m}
    <2>1. PICK n \in Matching(by, d) : (\A i \in Matching(by, d) : n <= i) /\ first(by) = {n}
      BY <1>5, <1>7
    <2>2. m = n
      BY <1>2, <1>7, <2>1 DEF Matching
    <2> QED BY <2>1, <2>2
  <1> HIDE DEF first, routing
  <1>8. \A m : first("domain") = {m} => Decide(d) = RoutingRules[m].tag
    BY <1>1, <1>3
  <1>9. \A m : first("domain") = {} /\ first("ip") = {m} => Decide(d) = RoutingRules[m].tag
    BY <1>1, <1>3
  <1>10. first("domain") = {} /\ first("ip") = {} => Decide(d) = "proxy"
    BY <1>3
  <1> QED BY <1>6, <1>7, <1>8, <1>9, <1>10

\* Whatever rules are stored, and however often they are edited and reordered,
\* one that applies decides, and the first by priority when they are in that
\* order (config.go:22, 244, 277, storage.go:356).
THEOREM RulesDecide == Spec => []DecisionFollowsRules
  <1>1. ASSUME TypeOK, NEW d \in Destinations
        PROVE  LET says(set) == \E i \in set : (\A j \in set : i <= j) /\ Decide(d) = rules[i].action
               IN  \/ says(Naming({"domain"}, d))
                   \/ Naming({"domain"}, d) = {} /\ says(Naming({"ip", "geoip"}, d))
                   \/ /\ Naming(Generating, d) = {}
                      /\ Decide(d) = IF d = "lan" THEN "direct" ELSE "proxy"
    <2> DEFINE D == Naming({"domain"}, d)
               P == Naming({"ip", "geoip"}, d)
               last == Len(rules) + 1
    <2>1. /\ Matching("domain", d) = D
          /\ Matching("ip", d) = P \cup (IF d = "lan" THEN {last} ELSE {})
          /\ \A i \in D \cup P : RoutingRules[i].tag = rules[i].action
      BY <1>1, Matches
    <2>2. /\ D \subseteq 1 .. Len(rules) /\ P \subseteq 1 .. Len(rules) /\ Len(rules) \in Nat
          /\ RoutingRules[last] = Private
      BY <1>1, Entries DEF Naming
    <2>3. Naming(Generating, d) = D \cup P
      BY DEF Naming, Generating
    <2>4. D \subseteq Nat /\ P \subseteq Nat
      BY <2>2
    <2> HIDE DEF D, P
    <2>5. CASE D # {}
      <3>1. PICK m \in D : \A i \in D : m <= i
        BY <2>4, <2>5, FirstOf
      <3>2. Decide(d) = RoutingRules[m].tag
        BY <1>1, <2>1, <3>1, DecidedBy
      <3> QED BY <2>1, <3>1, <3>2 DEF D
    <2>6. CASE D = {} /\ P # {}
      <3>1. PICK m \in P : \A i \in P : m <= i
        BY <2>4, <2>6, FirstOf
      <3>2. m \in Matching("ip", d) /\ \A i \in Matching("ip", d) : m <= i
        <4>1. m \in 1 .. Len(rules) /\ m <= last
          BY <2>2, <3>1
        <4>2. \A i \in P : m <= i
          BY <3>1
        <4>3. \A i \in Matching("ip", d) : i \in P \/ i = last
          BY <2>1
        <4>4. \A i \in Matching("ip", d) : m <= i
          BY <4>1, <4>2, <4>3
        <4> QED BY <2>1, <3>1, <4>4
      <3>3. Decide(d) = RoutingRules[m].tag
        BY <1>1, <2>1, <2>6, <3>2, DecidedBy
      <3> QED BY <2>1, <2>6, <3>1, <3>3 DEF D, P
    <2>7. CASE D = {} /\ P = {}
      <3>1. CASE d = "lan"
        <4>1. last \in Matching("ip", d) /\ \A i \in Matching("ip", d) : last <= i
          BY <2>1, <2>2, <2>7, <3>1
        <4>2. Decide(d) = Private.tag
          BY <1>1, <2>1, <2>2, <2>7, <4>1, DecidedBy
        <4> QED BY <2>3, <2>7, <3>1, <4>2 DEF Private
      <3>2. CASE d # "lan"
        <4>1. Decide(d) = "proxy"
          BY <1>1, <2>1, <2>7, <3>2, DecidedBy
        <4> QED BY <2>3, <2>7, <3>2, <4>1
      <3> QED BY <3>1, <3>2
    <2> QED BY <2>5, <2>6, <2>7
  <1>2. ASSUME NEW i, NEW S, S \subseteq DOMAIN rules, i \in S, \A j \in S : i <= j, InOrder
        PROVE  \A j \in S : Before(i, j)
    BY <1>2 DEF InOrder
  <1>3. ASSUME TypeOK, NEW d \in Destinations
        PROVE  \/ \E i \in Naming({"domain"}, d) :
                    Decide(d) = rules[i].action /\ (InOrder => \A j \in Naming({"domain"}, d) : Before(i, j))
               \/ /\ Naming({"domain"}, d) = {}
                  /\ \E i \in Naming({"ip", "geoip"}, d) :
                       /\ Decide(d) = rules[i].action
                       /\ InOrder => \A j \in Naming({"ip", "geoip"}, d) : Before(i, j)
               \/ /\ Naming(Generating, d) = {}
                  /\ Decide(d) = IF d = "lan" THEN "direct" ELSE "proxy"
    <2>1. \A types : Naming(types, d) \subseteq DOMAIN rules
      BY DEF Naming
    <2> QED BY <1>1, <1>2, <1>3, <2>1
  <1>4. TypeOK => DecisionFollowsRules
    BY <1>3 DEF DecisionFollowsRules, Naming
  <1> QED BY <1>4, TypeInvariance, PTL

================================================================================
