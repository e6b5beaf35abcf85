CONSTANTS
  r1 = r1
  r2 = r2
  None = None
  Slots <- TwoSlots
  Scores = {1}
  Verdicts = {"submitted", "returned"}
  MaxUploads = 3
SPECIFICATION AssignmentSpec
SYMMETRY SlotPerm
INVARIANTS ReviewerHears StudentHears
CHECK_DEADLOCK FALSE
