CONSTANTS
  Results <- MCResults
  Keys <- MCKeys
  q1 = q1
  q2 = q2
  s1 = s1
  k1 = k1
  d1 = d1
  i1 = i1
  Nobody = Nobody
  StorageOf <- OneStorage
  KeyOf <- SharedKeys
  Schemas <- MCSchemas
  Iterators <- MCIterators
  BatchCount = 2
  MaxBatches = 1
  Relation <- StreamAndBridge
SPECIFICATION LiveSpec
INVARIANTS
  TypeOK
  NothingLeaks
  ReleasedOnce
  NothingReadsReleased
  MountsAreHeld
  NothingLostOrRepeated
PROPERTIES
  EveryCallEnds
  ClosedResultsRelease
CHECK_DEADLOCK FALSE
