SPECIFICATION Spec
CONSTANTS
  g1 = g1
  g2 = g2
  Frames <- MCFrames
  Guards <- MCGuards
  K = 2
  MaxPages = 3
  Words = {1}
  Habits = {"delete"}
INVARIANTS
  PoolTypeOK
  FramesAccountedFor
  PinsExact
  GuardsStayPut
CHECK_DEADLOCK FALSE
VIEW MCView
SYMMETRY MCSymmetry
