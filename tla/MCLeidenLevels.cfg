SPECIFICATION Spec
CONSTANTS
  Draw <- MCDraw
  Graphs <- JustLasso
  Algorithms = {"leiden"}
INVARIANT OuterLoopConverges
CHECK_DEADLOCK FALSE
