------------------------------- MODULE XrayConfig -------------------------------
(***************************************************************************)
(* The config an activation writes (internal/xray/config.go): the outbound *)
(* of the active proxy, which some share link was parsed to, and the rules *)
(* generated from the stored ones, which the handlers of                   *)
(* internal/handlers/routing.go edit.  A destination is what a condition   *)
(* may name.                                                               *)
(***************************************************************************)
EXTENDS ShareLink, Sequences

CONSTANTS
  Links,         \* the links a proxy may have come from
  Destinations,  \* what conditions name; "lan" is in geoip:private
  Types,         \* the types of rules
  Actions,       \* the actions of rules
  Priorities,    \* the priorities of rules
  MaxRules       \* bound: how many rules are stored at once

ASSUME ConfigAssumption ==
  /\ Links \subseteq Link /\ \A l \in Links : Parse(l) # Failed
  /\ Empty \notin Destinations /\ Priorities \subseteq Int /\ MaxRules \in Nat

VARIABLES
  link,    \* where the active proxy has come from
  rules    \* Store.rules, in the order of their creation

vars == <<link, rules>>

Rule == [priority : Priorities, type : Types,
         condition : Destinations \cup {Empty}, action : Actions, enabled : BOOLEAN]

TypeOK == link \in Links /\ rules \in Seq(Rule) /\ Len(rules) <= MaxRules

Init == link \in Links /\ rules = <<>>

-----------------------------------------------------------------------------
(* proxyToOutbound.                                                        *)

\* The block of streamSettings that belongs to the network.
Transport(p) ==
  CASE p.network \in {"ws", "h2", "http"} ->
         [block |-> p.network, path |-> FirstNonEmpty(p.path, "/"), host |-> p.host]
    [] p.network = "grpc" -> [block |-> "grpc", path |-> p.path, host |-> Empty]
    [] OTHER -> [block |-> Empty, path |-> Empty, host |-> Empty]

\* Variant: TLS is looked for in the security field only.
SecurityBySecurity(p) == IF p.security \in {"reality", "tls"} THEN p.security ELSE "none"

Security(p) == IF p.security = "reality" THEN "reality" ELSE IF p.tls THEN "tls" ELSE "none"

Outbound(p) ==
  [address |-> p.address, port |-> p.port, user |-> p.user,
   network |-> FirstNonEmpty(p.network, "tcp"),
   transport |-> IF p.protocol \in {"ss", "hy2"} THEN Transport([p EXCEPT !.network = "tcp"])
                                                  ELSE Transport(p),
   security |-> Security(p),
   serverName |-> IF Security(p) = "none" THEN Empty ELSE FirstNonEmpty(p.sni, p.address),
   publicKey |-> IF Security(p) = "reality" THEN p.publicKey ELSE Empty,
   insecure |-> p.protocol = "hy2" /\ p.security = "tls-insecure"]

-----------------------------------------------------------------------------
(* buildRoutingRules and GenerateConfig.                                   *)

\* "custom" and a type nobody knows generate nothing.
Generating == {"domain", "ip", "geoip"}

Generates(r) == r.enabled /\ r.type \in Generating /\ r.condition # Empty

\* The generated list.  Only the order of its entries matters, and so each has
\* the number of the rule it is made from.
Generated == [i \in {n \in DOMAIN rules : Generates(rules[n])} |->
                [by |-> IF rules[i].type = "domain" THEN "domain" ELSE "ip",
                 condition |-> rules[i].condition, tag |-> rules[i].action]]

Private == [by |-> "ip", condition |-> "lan", tag |-> "direct"]

PutAt(n) == [i \in DOMAIN Generated \cup {n} |-> IF i = n THEN Private ELSE Generated[i]]

\* Variant: the fixed rule is put in front.
RoutingRulesPrivateFirst == PutAt(0)

\* The fixed rule comes last.
RoutingRules == PutAt(Len(rules) + 1)

GenerateConfig == [outbound |-> Outbound(Parse(link)), rules |-> RoutingRules]

\* Where xray sends a request for the name of d: to what the first rule on
\* names says, then (IPIfNonMatch) the first on addresses; the first outbound
\* is the default.  A config with a rule without a condition is refused.
Decide(d) ==
  LET routing == GenerateConfig.rules
      first(by) == {i \in DOMAIN routing : /\ routing[i].by = by /\ routing[i].condition = d
                                           /\ \A j \in DOMAIN routing :
                                                j < i /\ routing[j].by = by => routing[j].condition # d}
      hit == IF first("domain") # {} THEN first("domain") ELSE first("ip")
  IN  IF \E i \in DOMAIN routing : routing[i].condition = Empty THEN "refused"
      ELSE IF hit = {} THEN "proxy" ELSE routing[CHOOSE i \in hit : TRUE].tag

-----------------------------------------------------------------------------
(* The handlers.                                                           *)

CreateRule ==
  /\ Len(rules) < MaxRules
  /\ \E r \in Rule : r.enabled /\ rules' = Append(rules, r)
  /\ UNCHANGED link

UpdateRule ==
  /\ \E i \in DOMAIN rules, r \in Rule : rules' = [rules EXCEPT ![i] = r]
  /\ UNCHANGED link

DeleteRule ==
  /\ \E i \in DOMAIN rules :
       rules' = [j \in 1 .. Len(rules) - 1 |-> IF j < i THEN rules[j] ELSE rules[j + 1]]
  /\ UNCHANGED link

\* Sets the priority of the rules it names, in place; others stay.
ReorderRules ==
  /\ \E new \in [DOMAIN rules -> Priorities] :
       rules' = [i \in DOMAIN rules |-> [rules[i] EXCEPT !.priority = new[i]]]
  /\ UNCHANGED link

Next == CreateRule \/ UpdateRule \/ DeleteRule \/ ReorderRules

Spec == Init /\ [][Next]_vars

-----------------------------------------------------------------------------
(* Properties.                                                             *)

out == GenerateConfig.outbound

\* What a link says of its security, in the way of its scheme.
Asked(l) ==
  LET s == Lower(l.security)
  IN  CASE l.scheme = "vmess"  -> IF s = "tls" THEN "tls" ELSE "none"
        [] l.scheme = "vless"  -> IF s = "reality" THEN s ELSE IF s \in {"tls", "xtls"} THEN "tls" ELSE "none"
        [] l.scheme = "trojan" -> IF s \in {"reality", "none"} THEN s ELSE "tls"
        [] l.scheme = "ss"     -> "none"
        [] l.scheme = "hy2"    -> "tls"

\* The outbound speaks the security its link asks for, whatever the cipher:
\* two fields, one of which means three things (parser.go:88, 115, 143, 249;
\* config.go:199), carry it.  It vouches for the name the link gives, and
\* leaves the certificate unchecked only for a link that says so.  A reality
\* outbound of a vless link has the key of its link, and no other security
\* sends one (config.go:200, parser.go:111).  One link is misread: a vmess
\* link that gives "reality" for its cipher.
SecurityKept ==
  /\ link.scheme # "vmess" \/ link.cipher # "reality" => out.security = Asked(link)
  /\ link.sni # Empty /\ out.security # "none" => out.serverName = link.sni
  /\ out.security # "none" => out.serverName # Empty
  /\ out.insecure => link.scheme = "hy2" /\ link.insecure # Empty
  /\ out.security = "reality" /\ link.scheme = "vless" => out.publicKey = link.pbk
  /\ out.security # "reality" => out.publicKey = Empty

\* The outbound reaches the server the link names: its host, its port if that
\* is a number and 443 otherwise for the schemes that have a default, and for
\* a network in the spelling of xray the block of that network with the path,
\* or service, and the host of the link; vmess has its service in the path
\* (parser.go:82, 104, 134, 242, config.go:182).
ServerKept ==
  /\ out.address = link.host /\ out.user = link.user
  /\ IsNumber(link.port) => out.port = link.port.value
  /\ ~IsNumber(link.port) /\ link.scheme \in {"vless", "trojan", "hy2"} => out.port = 443
  /\ link.scheme \in {"vmess", "vless", "trojan"} /\ link.type \in {"ws", "h2", "http", "grpc"} =>
       /\ out.transport.block = link.type /\ out.network = link.type
       /\ link.path # Empty => out.transport.path = link.path
       /\ link.path = Empty /\ link.service # Empty /\ link.scheme # "vmess" =>
            out.transport.path = link.service
       /\ link.type # "grpc" /\ link.httpHost # Empty => out.transport.host = link.httpHost
       /\ link.type # "grpc" => out.transport.path # Empty
  /\ out.transport.block # Empty => out.transport.block = out.network

\* Rules are evaluated by priority, "lower = earlier" (models.go:98), and the
\* older first among equals.
Before(i, j) ==
  \/ rules[i].priority < rules[j].priority
  \/ rules[i].priority = rules[j].priority /\ i <= j

\* The stored list is in that order.  The store never sorts it (storage.go:357).
InOrder == \A i, j \in DOMAIN rules : i <= j => Before(i, j)

\* Where the traffic to d goes is said by a rule that is enabled and names d,
\* by its domain or else by its address; without one the private networks are
\* direct and the rest goes to the proxy.  So a rule that is disabled, blank
\* or of a type without meaning decides nothing, and the private networks can
\* be overruled (config.go:22, 244, 277).  Of several such rules the first by
\* priority decides when the stored list is in that order.  When it is not the
\* code does otherwise, against storage.go:356, and nothing is said of which.
DecisionFollowsRules ==
  /\ TypeOK
  /\ \A d \in Destinations :
       LET naming(types) == {i \in DOMAIN rules :
             rules[i].enabled /\ rules[i].type \in types /\ rules[i].condition = d}
           says(set) == \E i \in set : /\ Decide(d) = rules[i].action
                                       /\ InOrder => \A j \in set : Before(i, j)
       IN  \/ says(naming({"domain"}))
           \/ naming({"domain"}) = {} /\ says(naming({"ip", "geoip"}))
           \/ /\ naming(Generating) = {}
              /\ Decide(d) = IF d = "lan" THEN "direct" ELSE "proxy"

================================================================================
