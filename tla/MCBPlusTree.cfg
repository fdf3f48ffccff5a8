SPECIFICATION BothSpec
CONSTANTS
  Keys <- MCKeys
  Values <- MCValues
  Stores <- MCStores
  PageIds <- MCPageIds
  LeafMax = 2
  InternalMax = 3
  HintIndexes = {1}
  Seconds = 3
  NoValue = NoValue
INVARIANTS
  TreeTypeOK
  ImplementsStore
  TreeValid
  IterationInOrder
  EveryPageHasOneParent
CHECK_DEADLOCK FALSE
VIEW MCView
