SPECIFICATION Spec
CONSTANTS
  g = g
  a1 = a1
  b1 = b1
  a2 = a2
  b2 = b2
  a3 = a3
  early = early
  gap = gap
  none = none
  Ids <- MCIds
  EmptyId = none
  Genesis = g
  Parent <- MCParent
  Height <- MCHeight
  Timestamp <- MCTimestamp
  MetaTime <- MCMetaTime
  Micros = 2
  Hour = 2
  MaxNow = 2
  MaxCrashes = 2
INVARIANTS
  TypeOK
  LedgerFollowsChain
  LastAcceptedIsStored
  OneTornAccept
  VerifiedIsProcessing
  BlocksAreFound
PROPERTIES
  KeepsPromise
  NoReorg
CHECK_DEADLOCK FALSE
