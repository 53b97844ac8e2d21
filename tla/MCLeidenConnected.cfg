SPECIFICATION Spec
CONSTANTS
  Draw <- MCDraw
  Graphs <- JustTorn
  Algorithms = {"leiden"}
INVARIANT CommunitiesConnected
CHECK_DEADLOCK FALSE
