------------------------------- MODULE ShareLink -------------------------------
(***************************************************************************)
(* Share links and the proxies they parse to (internal/parser/parser.go).  *)
(* A link is a record of the texts that a parser takes out of it, "" where *)
(* it has none or blanks; how they are written (base64, JSON, URL, ss user info) is  *)
(* left out, and so are names and flow, which are only copied.             *)
(***************************************************************************)
EXTENDS Integers

CONSTANTS
  Lower(_),  \* strings.ToLower
  MaxInt     \* the largest int of the platform

Empty == ""

\* The words that the parsers look for are in small letters.
Words == {Empty, "none", "tls", "reality", "xtls", "ws", "h2", "http", "grpc", "true"}

ASSUME TextAssumption ==
  /\ \A w \in Words : Lower(w) = w
  /\ MaxInt \in Nat

\* What is written for a port: nothing, digits, digits with a sign, or no
\* number; and the number, of any size, that the digits mean.
Port == [text : {"none", "digits", "signed", "other"}, value : Int]

\* type is net in vmess, security is tls there, and cipher is scy.
Link == [scheme : {"vmess", "vless", "trojan", "ss", "hy2"},
         host : STRING, port : Port, user : STRING,
         type : STRING, security : STRING, sni : STRING, peer : STRING,
         httpHost : STRING, path : STRING, service : STRING,
         pbk : STRING, fp : STRING, insecure : STRING, cipher : STRING]

Failed == [failed |-> TRUE]

FirstNonEmpty(a, b) == IF a # Empty THEN a ELSE b

-----------------------------------------------------------------------------
(* Ports are not checked for their range.                                  *)

\* Whether strconv.Atoi takes the text for a number of type int.
IsNumber(p) == p.text \in {"digits", "signed"} /\ p.value \in -MaxInt - 1 .. MaxInt

\* What Atoi returns, with or without an error.
Number(p) ==
  IF p.text \notin {"digits", "signed"} THEN 0
  ELSE IF p.value > MaxInt THEN MaxInt
  ELSE IF p.value < -MaxInt - 1 THEN -MaxInt - 1 ELSE p.value

\* Variant: a port that is no number is 0.
AtoiOrZero(p, default) == IF p.text = "none" THEN default ELSE Number(p)

AtoiDefault(p, default) == IF IsNumber(p) THEN Number(p) ELSE default

\* url.Parse rejects a port that is not made of digits.
IsUrlPort(p) == p.text \in {"none", "digits"}

-----------------------------------------------------------------------------
\* What the three parsers of URLs share.
FromUrl(l) ==
  [protocol |-> l.scheme, address |-> l.host, port |-> AtoiDefault(l.port, 443), user |-> l.user,
   network |-> FirstNonEmpty(l.type, "tcp"),
   sni |-> FirstNonEmpty(l.sni, l.peer),
   host |-> FirstNonEmpty(l.httpHost, FirstNonEmpty(l.sni, l.peer)),
   path |-> FirstNonEmpty(l.path, l.service),
   fingerprint |-> l.fp, publicKey |-> Empty, security |-> Lower(l.security), tls |-> TRUE]

Vless(l) ==
  [FromUrl(l) EXCEPT !.publicKey = l.pbk, !.tls = Lower(l.security) \in {"tls", "reality", "xtls"}]

\* TLS unless the link says "none"; pbk is not read.
Trojan(l) ==
  [FromUrl(l) EXCEPT !.security = FirstNonEmpty(@, "tls"), !.tls = Lower(l.security) # "none"]

\* obfs goes to host, which no outbound of hysteria2 reads.
Hysteria2(l) ==
  [FromUrl(l) EXCEPT !.network = Empty, !.path = Empty, !.host = Empty,
     !.security = IF l.insecure = "1" \/ Lower(l.insecure) = "true" THEN "tls-insecure" ELSE "tls"]

\* Security is the cipher here, and TLS a flag of its own.
Vmess(l) ==
  [protocol |-> "vmess", address |-> l.host, port |-> Number(l.port), user |-> l.user,
   network |-> FirstNonEmpty(Lower(l.type), "tcp"),
   sni |-> FirstNonEmpty(l.sni, l.httpHost), host |-> l.httpHost, path |-> l.path,
   fingerprint |-> Empty, publicKey |-> Empty, security |-> FirstNonEmpty(l.cipher, "auto"),
   tls |-> Lower(l.security) = "tls"]

Shadowsocks(l) ==
  [protocol |-> "ss", address |-> l.host, port |-> Number(l.port), user |-> l.user,
   network |-> "tcp", sni |-> Empty, host |-> Empty, path |-> Empty,
   fingerprint |-> Empty, publicKey |-> Empty, security |-> Empty, tls |-> FALSE]

\* No parser takes a link without a host; ss needs a number for its port, and
\* url.Parse digits.
Refused(l) ==
  \/ l.host = Empty
  \/ l.scheme = "ss" /\ ~IsNumber(l.port)
  \/ l.scheme \in {"vless", "trojan", "hy2"} /\ ~IsUrlPort(l.port)

Dispatched(l) ==
  CASE l.scheme = "vmess"  -> Vmess(l)
    [] l.scheme = "vless"  -> Vless(l)
    [] l.scheme = "trojan" -> Trojan(l)
    [] l.scheme = "ss"     -> Shadowsocks(l)
    [] l.scheme = "hy2"    -> Hysteria2(l)

Parse(l) == IF Refused(l) THEN Failed ELSE Dispatched(l)

================================================================================
