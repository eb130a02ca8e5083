\* A hundred links of five schemes; two rules of a domain, an address or a type
\* without meaning, for a private destination and a public one, in any order.
CONSTANTS
  Lower  <- ToLower
  MaxInt <- Largest
  Links  <- AllLinks
  Destinations = {"lan", "wan"}
  Types        = {"domain", "ip", "custom"}
  Actions      = {"proxy", "block"}
  Priorities   = {1, 2}
  MaxRules     = 2
SPECIFICATION Spec
INVARIANTS
  DecisionFollowsRules
  SecurityKept
  ServerKept
CONSTRAINT EditedLink
