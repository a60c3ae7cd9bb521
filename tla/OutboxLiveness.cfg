SPECIFICATION FairSpec
CONSTANTS
  o1 = o1
  o2 = o2
  paris = paris
  ml = ml
  w1 = w1
  w2 = w2
  Rank <- MCRank
  Orders = {o1}
  Targets = {paris, ml}
  Workers = {w1, w2}
  Empty = {}
  Invalid = {}
  Healthy = {ml}
  MaxAttempts = 2
  BatchSize = 1
  MaxFaults = 1
PROPERTIES QueuedIsSettled HealthyIsSent ConfirmedIsSettled
