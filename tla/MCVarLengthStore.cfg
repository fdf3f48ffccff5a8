SPECIFICATION Spec
CONSTANTS
  kFrameSize = 3
  Sizes = {1, 2, 3}
  Bytes = {1}
  PageIds = {0, 1, 2}
INVARIANTS
  RecordsApart
PROPERTIES
  ImplementsRecordStore
