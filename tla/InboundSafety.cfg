SPECIFICATION Spec
CONSTANTS
  shipped = shipped
  delivered = delivered
  bare = bare
  broken = broken
  stray = stray
  p1 = p1
  p2 = p2
  id1 = id1
  id2 = id2
  r1 = r1
  r2 = r2
  s1 = s1
  s2 = s2
  rec = rec
  NoRef = NoRef
  InfoOf <- MCInfoOf
  MarketOrders = {p1, p2}
  Refs = {id1, id2}
  OdooOrders = {id1}
  Reconciler = rec
  PullSize = 2
  Events = {bare, delivered, broken}
  Receivers = {r1, r2}
  Subscribers = {s1, s2}
  Supervised = TRUE
  MaxFaults = 1
  MaxEdits = 1
INVARIANTS DuplicateIsInvisible NoFalsePoison AckedIsSafe
PROPERTIES InboundKeepsPromise
