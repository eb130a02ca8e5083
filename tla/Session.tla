-------------------------------- MODULE Session --------------------------------
(***************************************************************************)
(* The signed session cookie (internal/auth/auth.go) in one browser, over  *)
(* restarts of the program.  The server keeps nothing but its secret: a    *)
(* token is its expiry time under a signature.                             *)
(***************************************************************************)
EXTENDS Naturals

CONSTANTS
  TTL,       \* sessionTTL
  MaxTime,   \* bound: the clock stops here
  MaxLives,  \* bound: how often the program is started
  NoCookie

VARIABLES
  now,       \* the time of day
  fixed,     \* SESSION_SECRET is set
  lives,     \* how often the program has been started
  secret,    \* SessionSecret: 0 the one that is set, n the one the n-th start drew
  cookie     \* what the browser holds: when the token expires, the secret that
             \* signed it, and how long the browser keeps it (MaxAge)

vars == <<now, fixed, lives, secret, cookie>>

Cookies == [exp : 0 .. MaxTime + TTL, key : 0 .. MaxLives, keep : 0 .. MaxTime + TTL + 1]

TypeOK ==
  /\ now \in 0 .. MaxTime /\ fixed \in BOOLEAN /\ lives \in 1 .. MaxLives
  /\ secret \in 0 .. MaxLives
  /\ cookie \in Cookies \cup {NoCookie}

\* Variant: the secret is always drawn.
LoadSecretDrawn(n) == n

LoadSecret(n) == IF fixed THEN 0 ELSE n

Init ==
  /\ now = 0 /\ fixed \in BOOLEAN /\ lives = 1
  /\ secret = LoadSecret(1)
  /\ cookie = NoCookie

\* valid, and the browser still sends the cookie.
Authenticated == cookie # NoCookie /\ now < cookie.exp /\ cookie.key = secret

\* CheckPassword has accepted.  MaxAge counts from the arrival of the answer.
Login == \E late \in {0, 1} :
  /\ cookie' = [exp |-> now + TTL, key |-> secret, keep |-> now + late + TTL]
  /\ UNCHANGED <<now, fixed, lives, secret>>

Logout ==
  /\ cookie' = NoCookie
  /\ UNCHANGED <<now, fixed, lives, secret>>

\* Time passes, also while the program is down; the browser discards what is over.
Tick ==
  /\ now < MaxTime
  /\ now' = now + 1
  /\ cookie' = IF cookie # NoCookie /\ cookie.keep <= now + 1 THEN NoCookie ELSE cookie
  /\ UNCHANGED <<fixed, lives, secret>>

Restart ==
  /\ lives < MaxLives
  /\ lives' = lives + 1
  /\ secret' = LoadSecret(lives + 1)
  /\ UNCHANGED <<now, fixed, cookie>>

Next == Login \/ Logout \/ Tick \/ Restart

================================================================================
