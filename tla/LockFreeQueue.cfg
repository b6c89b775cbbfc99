CONSTANTS
  v1 = v1
  v2 = v2
  a1 = a1
  a2 = a2
  a3 = a3
  a4 = a4
  Null = Null
  Value <- MCValue
  Addr <- MCAddr
SPECIFICATION FairSpec
INVARIANTS NoUseAfterFree ListIsChain
PROPERTIES ImplementsFifo ProduceReturns
