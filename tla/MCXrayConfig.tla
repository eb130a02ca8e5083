------------------------------ MODULE MCXrayConfig ------------------------------
(* Links of the five schemes for XrayConfig.                                 *)
EXTENDS XrayConfig

\* Constant: the texts of the run that are not in small letters.
ToLower(s) == CASE s = "WS" -> "ws" [] s = "TLS" -> "tls" [] s = "True" -> "true" [] OTHER -> s

Largest == 1000000

Digits(n) == [text |-> "digits", value |-> n]
NoPort    == [text |-> "none",   value |-> 0]
NoNumber  == [text |-> "other",  value |-> 0]
Signed(n) == [text |-> "signed", value |-> n]

Plain(s) ==
  [scheme |-> s, host |-> "srv", port |-> Digits(8443), user |-> "u", type |-> Empty, security |-> Empty,
   sni |-> Empty, peer |-> Empty, httpHost |-> Empty, path |-> Empty, service |-> Empty,
   pbk |-> Empty, fp |-> Empty, insecure |-> Empty, cipher |-> Empty]

Urls == {"vless", "trojan", "hy2"}
Streams == {"vmess", "vless", "trojan"}

\* The securities of a stream, with and without a name and a key.
Secured ==
  {[Plain(s) EXCEPT !.security = sec, !.sni = n,
                    !.pbk = IF sec = "reality" THEN "key" ELSE Empty] :
     s \in Streams, sec \in {Empty, "none", "tls", "TLS", "reality", "xtls"}, n \in {Empty, "name"}}

Ciphers == {[Plain("vmess") EXCEPT !.security = "tls", !.cipher = c] : c \in {"none", "aes-128-gcm", "reality"}}

\* The networks, with what their blocks take.
Networks ==
  {[Plain(s) EXCEPT !.type = t, !.path = p, !.httpHost = h, !.security = "tls"] :
     s \in Streams, t \in {"ws", "h2", "grpc", "WS"}, p \in {Empty, "p"}, h \in {Empty, "h"}}

Services == {[Plain(s) EXCEPT !.type = "grpc", !.service = "svc", !.peer = "name"] : s \in {"vless", "trojan"}}

\* Numbers in the range of ports, above it, and above that of int.
Ports ==
  {[Plain(s) EXCEPT !.port = p] : s \in Urls, p \in {NoPort, Digits(80), Digits(70000), Digits(Largest + 1)}}
    \cup {[Plain("vmess") EXCEPT !.port = p] : p \in {NoPort, NoNumber, Digits(70000), Signed(-1)}}
    \cup {[Plain("ss") EXCEPT !.port = p] : p \in {Digits(443), Signed(-1)}}

Others ==
  {Plain("ss"), [Plain("hy2") EXCEPT !.insecure = "0", !.sni = "name"]}
    \cup {[Plain("hy2") EXCEPT !.insecure = i] : i \in {Empty, "1", "True"}}

\* Bound: rules are edited under the plain link only; the outbound does not
\* read them, and the routing does not read the link.
EditedLink == link = Plain("vless") \/ rules = <<>>

AllLinks == {Plain("vless")} \cup Secured \cup Ciphers \cup Networks \cup Services \cup Ports \cup Others

================================================================================
