SPECIFICATION FairSpec
CONSTANTS
  Keys = {k1, k2}
  Values = {v1}
  TTLs <- MCTTLs
  CompactSlack = 0
  Hour = 9
  MaxSeq = 3
  MaxTime = 3
INVARIANTS TypeOK HeapInv NoOversleep HeapBounded
PROPERTIES ImplementsMap MemoryReturns
