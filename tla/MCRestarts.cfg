SPECIFICATION Spec
CONSTANTS
  g1 = g1
  g2 = g2
  Frames <- MCOneFrame
  Guards <- MCGuards
  K = 2
  MaxPages = 3
  Words = {1, 2}
  Habits = {"delete_saved", "exit", "clean"}
INVARIANTS
  ReadsLatest
  PagesInFile
PROPERTIES
  ImplementsPageStore
CHECK_DEADLOCK FALSE
VIEW MCView
SYMMETRY MCSymmetry
