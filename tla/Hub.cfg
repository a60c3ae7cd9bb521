SPECIFICATION HubSpec
CONSTANTS
  o1 = o1
  paris1 = paris1
  w1 = w1
  op1 = op1
  r1 = r1
  sub1 = sub1
  rec = rec
  Rank <- MCRank
  Orders = {o1}
  Targets = {paris1}
  Workers = {w1}
  Servers = {op1}
  Tools = {"replay"}
  Empty = {}
  Invalid = {}
  Healthy = {}
  MaxAttempts = 1
  BatchSize = 1
  MaxFaults = 0
  Paris = paris1
  Statuses = {"shipped", "delivered"}
  Events = {shipped, delivered}
  InfoOf <- MCInfoOf
  NoRef = NoRef
  shipped = shipped
  delivered = delivered
  Receivers = {r1}
  Subscribers = {sub1}
  Reconciler = rec
  PullSize = 1
  Supervised = TRUE
  MaxInFaults = 0
  MaxEdits = 1
INVARIANTS  StuckMeansUnsent
PROPERTIES KnownOrderIsNotSentAgain HubMakesJourney
