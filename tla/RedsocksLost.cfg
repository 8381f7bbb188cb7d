\* Two connections and a limit that they reach.
CONSTANTS
  Client = {c1, c2}
  ConnMax = 2
  MaxBackoff = 1
SPECIFICATION AcceptSpec
INVARIANT
  BackoffEnds
