SPECIFICATION McpSpec
CONSTANTS
  o1 = o1
  o2 = o2
  paris = paris
  ml = ml
  w1 = w1
  s1 = s1
  s2 = s2
  Rank <- MCRank
  Orders = {o1}
  Targets = {paris, ml}
  Workers = {w1}
  Servers = {s1}
  Tools = {"replay", "retry", "drain"}
  Empty = {}
  Invalid = {}
  Healthy = {}
  MaxAttempts = 2
  BatchSize = 2
  MaxFaults = 1
INVARIANTS McpTypeOK SessionsAreDisjoint ResetIsLogged
PROPERTIES ReplayRestoresRow CallIsAllOrNothing McpKeepsPromise
