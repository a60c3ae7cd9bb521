SPECIFICATION FairSpec
CONSTANTS
  o1 = o1
  o2 = o2
  paris = paris
  ml = ml
  w1 = w1
  w2 = w2
  Rank <- MCRank
  Orders = {o1, o2}
  Targets = {paris, ml}
  Workers = {w1}
  Empty = {}
  Invalid = {o2}
  Healthy = {paris, ml}
  MaxAttempts = 2
  BatchSize = 1
  MaxFaults = 0
PROPERTIES QueuedIsSettled
CHECK_DEADLOCK FALSE
