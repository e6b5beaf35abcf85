CONSTANTS
  r1 = r1
  r2 = r2
  None = None
  Slots <- TwoSlots
  Scores = {1}
  Verdicts = {"approved", "returned"}
  MaxUploads = 2
SPECIFICATION AssignmentSpec
SYMMETRY SlotPerm
INVARIANT NoGhostBells
CHECK_DEADLOCK FALSE
