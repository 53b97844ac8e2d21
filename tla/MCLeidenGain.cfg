SPECIFICATION Spec
CONSTANTS
  Draw <- MCDraw
  Graphs <- JustReluctant
  Algorithms = {"leiden"}
INVARIANT LocallyOptimal
CHECK_DEADLOCK FALSE
