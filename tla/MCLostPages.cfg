SPECIFICATION Spec
CONSTANTS
  g1 = g1
  g2 = g2
  Frames <- MCFrames
  Guards <- MCGuards
  K = 2
  MaxPages = 3
  Words = {1, 2}
  Habits = {"delete", "untouched", "exit"}
INVARIANTS
  PagesInFile
CHECK_DEADLOCK FALSE
VIEW MCView
SYMMETRY MCSymmetry
