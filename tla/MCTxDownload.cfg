CONSTANTS
  p1 = p1
  p2 = p2
  parent = parent
  child = child
  Peer = {p1, p2}
  Tx = {parent, child}
  Parents <- ChildSpendsParent
  Rank <- Ranks
  MayRefuse = {child}
  Large = {}
  Preferred = {p1}
  Honest = {p2}
  MayMine = {{parent, child}}
  MaySubmit = {child}
  NonPrefDelay = 1
  TxidDelay = 0
  OverloadedDelay = 1
  Interval = 2
  MaxInFlight = 1
  MaxAnnouncements = 2
  MaxOrphans = 1
  MaxBacks = 1
SPECIFICATION Spec
INVARIANTS
  SanityCheck
  NothingLeftBehind
  ReadyOrphansQueued
PROPERTIES
  ImplementsTxRequest
  
CHECK_DEADLOCK FALSE
